---- MODULE Spec2Model ----
(***************************************************************************)
(* Model of chatgpt-webui-mcp: the asynchronous ask-job table of           *)
(* src/src/index.ts (createAskJob, runAskJob, cleanupAskJobs, getAskJob,    *)
(* waitForAskJob, promptHandler) and the ask entry point of                 *)
(* src/src/chatgpt-webui-client.ts (ask, #askViaCamofox,                    *)
(* #camofoxFetchJsonDocument and the tab life cycle).                       *)
(*                                                                         *)
(* Conventions.  Strings the code inspects (prompt, model) are sequences   *)
(* of one-character strings.  An optional boolean is a BOOLEAN whose FALSE *)
(* stands for both false and undefined, an optional string is the empty    *)
(* sequence when absent, and an optional positive integer is 0 when        *)
(* absent: the code tests these fields only by truthiness, `=== true`,     *)
(* `?? ""`, `?? 0` or `?.trim() ||`, which do not tell the two apart.      *)
(* An optional enumeration is the string "undefined" when absent.          *)
(* Times are integer clock readings of Date.now(), which is positive.      *)
(***************************************************************************)
EXTENDS Integers, Sequences, FiniteSets, TLC

(***************************************************************************)
(* Bounds of the model.                                                    *)
(***************************************************************************)
\* number of jobs ever submitted in one behaviour
MaxJobs == 3
\* last clock reading
MaxTime == 3
\* number of jobs submitted while a caller waits
MaxWaitJobs == 2

(***************************************************************************)
(* Configuration (index.ts:110-111), scaled to the model's clock.          *)
(***************************************************************************)
ASK_ASYNC_JOB_TTL_MS == 1
ASK_ASYNC_JOB_MAX == 2

\* null for the numeric fields startedAt / finishedAt (index.ts:86-87)
Null == 0
\* null for result / error (index.ts:89-90)
NullStr == "null"

VARIABLES
    now,        \* Date.now()
    nextId,     \* the next crypto.randomUUID(): ids are fresh, never reused
    jobs,       \* the AskJob objects ever created, by id (they outlive the table)
    askJobs,    \* keys of the askJobs Map; insertion order is id order
    pc,         \* position of the synchronous code of createAskJob
    awaiting,   \* job ids whose runAskJob is suspended at `await withClient`
    runs,       \* per job id, how often runAskJob passed its guard
    waiter,     \* per caller, its call of the status / result tool
    request,    \* the call of chatgpt_webui_prompt a caller makes
    promptCall, \* promptHandler serving that call
    askInput,   \* the AskInput a call of ChatgptWebuiClient.ask is given
    askCall,    \* that call of ask: its position and its local variables
    remote,     \* the requests the automation backend has received: their
                \* kinds, those of the running attempt of ask, and the tabs
                \* created with no delete request yet
    poller,     \* a call of #camofoxPollAssistantText: its locals and outcome
    surface,    \* what the chat page is set to show to the poller's snapshots
    clients,    \* per concurrently running job, its ChatgptWebuiClient and the
                \* tab its attempt holds
    backend,    \* the automation backend's tabs and session contexts
    chatPage,   \* what the chat page shows to a helper of the Driver, and what
                \* the backend answers its snapshot requests with
    helper,     \* a call of one of the Driver's helpers on that page
    extraction, \* a call of extractLikelyAssistantTextFromSnapshot
    refUse      \* the element references a step of the Driver holds, and the
                \* snapshots they were parsed from

schedVars == <<now, nextId, jobs, askJobs, pc, awaiting, runs, waiter>>
promptVars == <<request, promptCall>>

askVars == <<askInput, askCall, remote>>
pollVars == <<poller, surface>>
tabVars == <<clients, backend>>
pageVars == <<chatPage, helper, extraction, refUse>>

vars == <<schedVars, promptVars, askVars, pollVars, tabVars, pageVars>>

Callers == {"caller"}
\* wait_timeout_ms (0: not given) and poll_interval_ms a caller passes
WaitTimeouts == {0, 1, 2}
PollIntervals == {1, 2}
JobIds == 1..MaxJobs

Terminal == {"succeeded", "failed"}
Live == {"queued", "running"}

(***************************************************************************)
(* Strings.                                                                *)
(***************************************************************************)
IsSpace(c) == c = " "

RECURSIVE TrimStart(_)
TrimStart(s) ==
    IF s = <<>> THEN <<>>
    ELSE IF IsSpace(Head(s)) THEN TrimStart(Tail(s)) ELSE s

RECURSIVE TrimEnd(_)
TrimEnd(s) ==
    IF s = <<>> THEN <<>>
    ELSE IF IsSpace(s[Len(s)]) THEN TrimEnd(SubSeq(s, 1, Len(s) - 1)) ELSE s

\* String.prototype.trim
Trim(s) == TrimEnd(TrimStart(s))

\* String.prototype.toLowerCase on the letters the model uses
LowerChar(c) ==
    CASE c = "G" -> "g"
      [] c = "P" -> "p"
      [] c = "T" -> "t"
      [] c = "R" -> "r"
      [] c = "O" -> "o"
      [] c = "A" -> "a"
      [] c = "C" -> "c"
      [] c = "Y" -> "y"
      [] OTHER -> c

ToLowerCase(s) == [i \in 1..Len(s) |-> LowerChar(s[i])]

\* \w of a JavaScript regular expression, on the characters the model uses
IsWordChar(c) ==
    c \in {"a", "c", "e", "g", "h", "i", "k", "m", "n", "o", "p", "r", "s", "t",
           "G", "P", "T", "R", "O", "1", "2", "5", "_"}

\* \b at position i (between s[i] and s[i+1]; 0 and Len(s) are the ends)
IsWordBoundary(s, i) ==
    LET before == i >= 1 /\ IsWordChar(s[i])
        after == i < Len(s) /\ IsWordChar(s[i + 1])
    IN before # after

\* the literal w occurs in s at positions i+1 .. i+Len(w)
OccursAt(s, w, i) ==
    /\ i + Len(w) <= Len(s)
    /\ \A k \in 1..Len(w) : s[i + k] = w[k]

Str_pro == <<"p", "r", "o">>
Str_thinking == <<"t", "h", "i", "n", "k", "i", "n", "g">>
Str_research == <<"r", "e", "s", "e", "a", "r", "c", "h">>
LongRunWords == {Str_pro, Str_thinking, Str_research}

\* /\b(pro|thinking|research)\b/.test(s)
TestLongRunWord(s) ==
    \E w \in LongRunWords, i \in 0..Len(s) :
        /\ OccursAt(s, w, i)
        /\ IsWordBoundary(s, i)
        /\ IsWordBoundary(s, i + Len(w))

(***************************************************************************)
(* Requests.                                                               *)
(***************************************************************************)
Str_empty == <<>>
Str_blank == <<" ">>
Str_hi == <<"h", "i">>
Str_hi_padded == <<" ", "h", "i", " ">>

\* an AskToolInput (index.ts:66-78)
AskToolInput(prompt, model, modelMode, effort, deepResearch, siteMode, createImage, waitMs) ==
    [prompt |-> prompt, model |-> model, model_mode |-> modelMode,
     reasoning_effort |-> effort, deep_research |-> deepResearch,
     deep_research_site_mode |-> siteMode, create_image |-> createImage,
     wait_timeout_ms |-> waitMs]

toAskClientInput(input) ==
    [prompt |-> input.prompt, model |-> input.model, modelMode |-> input.model_mode,
     reasoningEffort |-> input.reasoning_effort, deepResearch |-> input.deep_research,
     deepResearchSiteMode |-> input.deep_research_site_mode,
     createImage |-> input.create_image, waitTimeoutMs |-> input.wait_timeout_ms]

(***************************************************************************)
(* ChatgptWebuiClient.ask, the checks made before the first attempt        *)
(* (chatgpt-webui-client.ts:2901-2912).                                    *)
(***************************************************************************)
Err_missing_prompt == "missing_prompt"
Err_invalid_mode == "invalid_mode_combination_create_image_and_deep_research"
Err_other == "other_error"

deepResearchRequested(input) ==
    \/ input.deepResearch = TRUE
    \/ input.deepResearchSiteMode # "undefined"
    \/ Trim(input.model) = Str_research

\* mutant: ask checks the prompt only
AskPrecheck_promptOnly(input) ==
    IF Trim(input.prompt) = <<>> THEN Err_missing_prompt ELSE "ok"

\* "ok" when ask goes on to its attempts, else the message of the error thrown
AskPrecheck(input) ==
    IF Trim(input.prompt) = <<>> THEN Err_missing_prompt
    ELSE IF input.createImage /\ deepResearchRequested(input) THEN Err_invalid_mode
    ELSE "ok"

\* what `withClient(client => client.ask(...))` can settle with, as runAskJob
\* sees it: <<TRUE, result>> or <<FALSE, error message>>.  Err_other stands
\* for every other error: the constructor finding no session token (the
\* token file is read anew for every client) or a failed attempt.
WithClientAskOutcomes(toolInput) ==
    IF AskPrecheck(toAskClientInput(toolInput)) # "ok"
    THEN {<<FALSE, AskPrecheck(toAskClientInput(toolInput))>>, <<FALSE, Err_other>>}
    ELSE {<<TRUE, "answer">>, <<FALSE, Err_other>>}

(***************************************************************************)
(* The job table (index.ts:80-93).                                         *)
(***************************************************************************)
\* mutant: the job is stored as already started
NewJob_started(id, input, t) ==
    [id |-> id, state |-> "queued", createdAt |-> t, startedAt |-> t,
     finishedAt |-> Null, input |-> input, result |-> NullStr, error |-> NullStr]

NewJob(id, input, t) ==
    [id |-> id, state |-> "queued", createdAt |-> t, startedAt |-> Null,
     finishedAt |-> Null, input |-> input, result |-> NullStr, error |-> NullStr]

\* mutant: the TTL pass evicts nothing
TtlKept_never(tbl, J, t) == tbl

\* TTL pass of cleanupAskJobs (index.ts:148-152): the keys that stay
TtlKept(tbl, J, t) ==
    {id \in tbl : ~(J[id].finishedAt # Null /\ t - J[id].finishedAt > ASK_ASYNC_JOB_TTL_MS)}

\* mutant: the cap pass sorts by creation time
EvictKey_createdAt(job) == job.createdAt

\* sort key of the cap pass (index.ts:160)
EvictKey(job) == IF job.finishedAt # Null THEN job.finishedAt ELSE job.createdAt

\* mutant: the comparator of the sort is reversed (newest first)
EvictBefore_newestFirst(J, a, b) ==
    \/ EvictKey(J[a]) > EvictKey(J[b])
    \/ EvictKey(J[a]) = EvictKey(J[b]) /\ a < b

\* a precedes b in the sorted `evictable` array: Array.prototype.sort is
\* stable and Map iteration is insertion order, which is id order
EvictBefore(J, a, b) ==
    \/ EvictKey(J[a]) < EvictKey(J[b])
    \/ EvictKey(J[a]) = EvictKey(J[b]) /\ a < b

\* mutant: the cap pass evicts nothing
CapKept_all(tbl, J) == tbl

\* mutant: the cap pass takes every job of the table for evictable
CapKept_anyState(tbl, J) ==
    IF Cardinality(tbl) <= ASK_ASYNC_JOB_MAX THEN tbl
    ELSE LET excess == Cardinality(tbl) - ASK_ASYNC_JOB_MAX
             rank(a) == Cardinality({b \in tbl : EvictBefore(J, b, a)})
         IN tbl \ {a \in tbl : rank(a) < excess}

\* cap pass of cleanupAskJobs (index.ts:154-169): the keys that stay
CapKept(tbl, J) ==
    IF Cardinality(tbl) <= ASK_ASYNC_JOB_MAX THEN tbl
    ELSE LET evictable == {id \in tbl : J[id].state \in Terminal}
             excess == Cardinality(tbl) - ASK_ASYNC_JOB_MAX
             rank(a) == Cardinality({b \in evictable : EvictBefore(J, b, a)})
         IN tbl \ {a \in evictable : rank(a) < excess}

\* cleanupAskJobs (index.ts:145-170) at clock reading t: the keys that stay
cleanupAskJobs(tbl, J, t) == CapKept(TtlKept(tbl, J, t), J)

(***************************************************************************)
(* Inputs of the scheduler specification.                                  *)
(***************************************************************************)
PlainRequest ==
    AskToolInput(Str_hi, Str_empty, "instant", "undefined", FALSE, "undefined", FALSE, 0)
ImageResearchRequest ==
    AskToolInput(Str_hi, Str_empty, "undefined", "undefined", TRUE, "undefined", TRUE, 0)
BlankRequest ==
    AskToolInput(Str_blank, Str_empty, "undefined", "undefined", FALSE, "undefined", FALSE, 0)
SchedInputs == {PlainRequest}

\* a caller that has made no call yet.  op is the tool called, job the
\* AskJob it holds, found / state what the tool reported of it.
IdleWaiter ==
    [pc |-> "idle", op |-> "none", job |-> 0, startedAt |-> Null, timeout |-> 0,
     poll |-> 0, wakeAt |-> Null, sleeps |-> 0, found |-> FALSE, state |-> "none"]

SchedInit ==
    /\ now = 1
    /\ nextId = 1
    /\ jobs = <<>>
    /\ askJobs = {}
    /\ pc = "idle"
    /\ awaiting = {}
    /\ runs = [id \in JobIds |-> 0]
    /\ waiter = [c \in Callers |-> IdleWaiter]

(***************************************************************************)
(* createAskJob (index.ts:237-255).  The function is synchronous; it is    *)
(* modelled in two steps so that the job it stores is visible before       *)
(* runAskJob touches it.  While pc = "created" the call is still on the    *)
(* stack and no other handler runs.                                        *)
(***************************************************************************)
CreateAskJob(input) ==
    /\ pc = "idle"
    /\ nextId <= MaxJobs
    /\ LET kept == cleanupAskJobs(askJobs, jobs, now)
           job == NewJob(nextId, input, now)
       IN /\ jobs' = Append(jobs, job)
          /\ askJobs' = kept \cup {nextId}
    /\ nextId' = nextId + 1
    /\ pc' = "created"
    /\ UNCHANGED <<now, awaiting, runs, waiter>>

\* mutant: the guard tests only that the job exists
RunAskJobGuard_anyState(tbl, J, jobId) == jobId \in tbl

\* mutant: the guard only keeps a running job from being run again
RunAskJobGuard_notRunning(tbl, J, jobId) == jobId \in tbl /\ J[jobId].state # "running"

\* the guard of runAskJob (index.ts:173-176): TRUE iff the worker proceeds
RunAskJobGuard(tbl, J, jobId) == jobId \in tbl /\ J[jobId].state = "queued"

\* mutant: the worker's first step is put off until a later call
RunAskJobEnter_deferred(jobId) == UNCHANGED <<jobs, awaiting, runs>>

\* runAskJob up to its `await` (index.ts:172-182)
RunAskJobEnter(jobId) ==
    IF RunAskJobGuard(askJobs, jobs, jobId)
    THEN /\ jobs' = [jobs EXCEPT ![jobId].state = "running", ![jobId].startedAt = now]
         /\ awaiting' = awaiting \cup {jobId}
         /\ runs' = [runs EXCEPT ![jobId] = @ + 1]
    ELSE UNCHANGED <<jobs, awaiting, runs>>

\* `void runAskJob(jobId); return job;` (index.ts:253-254)
CreateAskJobRun ==
    /\ pc = "created"
    /\ RunAskJobEnter(nextId - 1)
    /\ pc' = "idle"
    /\ UNCHANGED <<now, nextId, askJobs, waiter>>

\* a further call of runAskJob for an id, made between two handlers
RunAskJobAgain(jobId) ==
    /\ pc = "idle"
    /\ RunAskJobEnter(jobId)
    /\ UNCHANGED <<now, nextId, askJobs, pc, waiter>>

\* mutant: a failed ask is given no finishedAt
SettleJob_unfinished(job, outcome, t) ==
    IF outcome[1]
    THEN [job EXCEPT !.result = outcome[2], !.state = "succeeded", !.finishedAt = t]
    ELSE [job EXCEPT !.error = outcome[2], !.state = "failed"]

\* mutant: a failed ask leaves the job running
SettleJob_failureKeepsRunning(job, outcome, t) ==
    IF outcome[1]
    THEN [job EXCEPT !.result = outcome[2], !.state = "succeeded", !.finishedAt = t]
    ELSE [job EXCEPT !.error = outcome[2]]

\* the job object after the try / catch / finally of runAskJob settles
\* with outcome <<ok, value>> at clock reading t (index.ts:181-189)
SettleJob(job, outcome, t) ==
    IF outcome[1]
    THEN [job EXCEPT !.result = outcome[2], !.state = "succeeded", !.finishedAt = t]
    ELSE [job EXCEPT !.error = outcome[2], !.state = "failed", !.finishedAt = t]

\* runAskJob after its `await` has settled with outcome (index.ts:183-191)
RunAskJobSettle(jobId, outcome) ==
    /\ pc = "idle"
    /\ jobId \in awaiting
    /\ jobs' = [jobs EXCEPT ![jobId] = SettleJob(jobs[jobId], outcome, now)]
    /\ askJobs' = cleanupAskJobs(askJobs, jobs', now)
    /\ awaiting' = awaiting \ {jobId}
    /\ UNCHANGED <<now, nextId, pc, runs, waiter>>

\* runAskJob after its `await`, whatever the ask settles with
RunAskJobFinish(jobId) ==
    /\ jobId \in awaiting
    /\ \E outcome \in WithClientAskOutcomes(jobs[jobId].input) :
         RunAskJobSettle(jobId, outcome)

\* getAskJob (index.ts:194-201): TRUE iff it returns the job, FALSE iff it
\* throws ask_job_not_found
getAskJob(tbl, jobId) == jobId \in tbl

\* mutant: the status tool sweeps the table before it looks the job up
Status_sweeping(c, jobId) ==
    /\ pc = "idle"
    /\ waiter[c].pc # "sleeping"
    /\ askJobs' = cleanupAskJobs(askJobs, jobs, now)
    /\ waiter' = [waiter EXCEPT ![c] =
          IF getAskJob(askJobs', jobId)
          THEN [IdleWaiter EXCEPT !.pc = "returned", !.op = "status", !.job = jobId,
                                  !.found = TRUE, !.state = jobs[jobId].state]
          ELSE [IdleWaiter EXCEPT !.pc = "returned", !.op = "status", !.job = jobId]]
    /\ UNCHANGED <<now, nextId, jobs, pc, awaiting, runs>>

\* chatgpt_webui_ask_async_status (index.ts:515-530)
Status(c, jobId) ==
    /\ pc = "idle"
    /\ waiter[c].pc # "sleeping"
    /\ waiter' = [waiter EXCEPT ![c] =
          IF getAskJob(askJobs, jobId)
          THEN [IdleWaiter EXCEPT !.pc = "returned", !.op = "status", !.job = jobId,
                                  !.found = TRUE, !.state = jobs[jobId].state]
          ELSE [IdleWaiter EXCEPT !.pc = "returned", !.op = "status", !.job = jobId]]
    /\ UNCHANGED <<now, nextId, jobs, askJobs, pc, awaiting, runs>>

\* waitForAskJob returns its job to the tool, which reports the state it
\* reads from it; the clock readings of the call are gone
Returned(w, state) ==
    [IdleWaiter EXCEPT !.pc = "returned", !.op = w.op, !.job = w.job,
                       !.found = TRUE, !.state = state, !.sleeps = w.sleeps,
                       !.timeout = w.timeout]

\* mutant: the loop tests the deadline only, not the job's state
WaitLoop_deadlineOnly(w, J, t) ==
    IF t - w.startedAt >= w.timeout
    THEN Returned(w, J[w.job].state)
    ELSE [w EXCEPT !.pc = "sleeping", !.wakeAt = t + w.poll, !.sleeps = @ + 1]

\* mutant: every round looks the job up in the table again
WaitLoop_lookup(w, J, t) ==
    IF w.job \notin askJobs
    THEN [IdleWaiter EXCEPT !.pc = "returned", !.op = w.op, !.job = w.job]
    ELSE IF J[w.job].state \in Live /\ t - w.startedAt < w.timeout
    THEN [w EXCEPT !.pc = "sleeping", !.wakeAt = t + w.poll, !.sleeps = @ + 1]
    ELSE Returned(w, J[w.job].state)

\* one evaluation of the loop of waitForAskJob (index.ts:205-213) by a
\* waiter w at clock reading t: the waiter after it
WaitLoop(w, J, t) ==
    IF J[w.job].state \in Live
    THEN IF t - w.startedAt >= w.timeout
         THEN Returned(w, J[w.job].state)
         ELSE [w EXCEPT !.pc = "sleeping", !.wakeAt = t + w.poll, !.sleeps = @ + 1]
    ELSE Returned(w, J[w.job].state)

\* chatgpt_webui_ask_async_result (index.ts:554-560): getAskJob, then
\* waitForAskJob when wait_timeout_ms is given
ResultCall(c, jobId, waitTimeoutMs, pollIntervalMs) ==
    /\ pc = "idle"
    /\ waiter[c].pc # "sleeping"
    /\ LET w0 == [IdleWaiter EXCEPT !.op = "result", !.job = jobId, !.found = TRUE,
                                    !.startedAt = now, !.timeout = waitTimeoutMs,
                                    !.poll = pollIntervalMs]
       IN waiter' = [waiter EXCEPT ![c] =
             IF ~getAskJob(askJobs, jobId)
             THEN [IdleWaiter EXCEPT !.pc = "returned", !.op = "result", !.job = jobId]
             ELSE IF waitTimeoutMs # 0
                  THEN WaitLoop(w0, jobs, now)
                  ELSE Returned(w0, jobs[jobId].state)]
    /\ UNCHANGED <<now, nextId, jobs, askJobs, pc, awaiting, runs>>

\* the timer of `await sleep(pollIntervalMs)` fires (never early) and the
\* loop of waitForAskJob is evaluated again
WaitWake(c) ==
    /\ pc = "idle"
    /\ waiter[c].pc = "sleeping"
    /\ now >= waiter[c].wakeAt
    /\ waiter' = [waiter EXCEPT ![c] = WaitLoop(waiter[c], jobs, now)]
    /\ UNCHANGED <<now, nextId, jobs, askJobs, pc, awaiting, runs>>

\* the clock advances
Tick ==
    /\ pc = "idle"
    /\ now < MaxTime
    /\ now' = now + 1
    /\ UNCHANGED <<nextId, jobs, askJobs, pc, awaiting, runs, waiter>>

\* no call of chatgpt_webui_prompt
NoRequest ==
    [input |-> PlainRequest, mode |-> "none", wait_for_ms |-> 0, poll_interval_ms |-> 0]

IdlePrompt == [pc |-> "ready", mode |-> "none", run_id |-> 0, state |-> "none", w |-> IdleWaiter]

NoPrompt == request = NoRequest /\ promptCall = IdlePrompt

\* ask before it is called: no attempt, no tab, nothing thrown or returned;
\* `settle` is how the attempt's image wait ended, `conversationId` the
\* polledConversationId of the attempt ("" is null), `slept` the delay of
\* the sleep a retry loop has just made (0 when the last step made none),
\* `degraded` the configuration steps of the attempt whose failure was
\* swallowed, kept until the prompt is submitted
IdleAsk ==
    [pc |-> "ready", attempts |-> 0, tabId |-> 0, step |-> 0, createAttempt |-> 0,
     download |-> 0, fetchAttempt |-> 0, fetchTab |-> 0, pending |-> "none",
     lastError |-> "none", error |-> "none", model |-> <<>>,
     text |-> "", conversationId |-> "", settle |-> "none", slept |-> 0,
     degraded |-> {}]
\* a backend that has received no request
NoRemote == [undeleted |-> {}, issued |-> {}, attempt |-> {}]
NoAsk ==
    /\ askInput = toAskClientInput(PlainRequest)
    /\ askCall = IdleAsk
    /\ remote = NoRemote

\* no snapshot in hand: a page that shows nothing
NoSnapshot ==
    [stop |-> FALSE, continueGenerating |-> FALSE, phrases |-> {}, logIn |-> FALSE,
     assistantText |-> "", conversationId |-> "", readyInput |-> FALSE]
\* #camofoxPollAssistantText before it is called; the locals are those the
\* function declares (chatgpt-webui-client.ts:2393-2399), "" is null;
\* `snapshot` is what the snapshot in hand showed, but for its text and
\* conversation id, when a tick ended the call
IdlePoller ==
    [pc |-> "idle", startedAt |-> 0, timeoutMs |-> 0, allowEmptyResult |-> FALSE,
     lastCandidate |-> "", lastCandidateAt |-> 0, lastConversationId |-> "",
     idleTicks |-> 0, seenGenerationIndicator |-> FALSE, snapshot |-> NoSnapshot,
     text |-> "", conversationId |-> "", error |-> "none"]
\* a page of which nothing is known: any snapshot can follow any other
AnySurface == [script |-> "any", snapshots |-> 0]
NoPoll ==
    /\ poller = IdlePoller
    /\ surface = AnySurface

\* the jobs whose attempts run at the same time
TabJobs == {1, 2}
\* a job before withClient has made its client
IdleClient ==
    [pc |-> "idle", userId |-> "", sessionKey |-> "", tabId |-> 0, attempts |-> 0,
     target |-> 0, session |-> "", command |-> "none"]
\* a backend with no tab and no session context
NoBackend == [tabs |-> {}, created |-> <<>>, contexts |-> {}]
NoTabs ==
    /\ clients = [j \in TabJobs |-> IdleClient]
    /\ backend = NoBackend

\* a page with no reasoning depth selected and no workspace interstitial,
\* whose snapshot fits one chunk
PlainPage ==
    [depth |-> "none", selectWorkspace |-> FALSE, radios |-> <<>>]
\* no helper of the Driver has been called
IdleHelper ==
    [fn |-> "none", pc |-> "idle", arg |-> "undefined", before |-> "none",
     clicks |-> <<>>, attempt |-> 0, offset |-> 0, fetched |-> <<>>,
     chunks |-> <<>>, text |-> <<>>, error |-> "none"]
\* extractLikelyAssistantTextFromSnapshot has not been called
NoExtraction == [pc |-> "idle", lines |-> <<>>, prompt |-> <<>>, text |-> <<>>]
\* no step of the Driver holds an element reference
NoRefs == [pc |-> "idle", site |-> "none", ops |-> <<>>, at |-> 0, page |-> 0,
           held |-> <<>>, used |-> <<>>]
NoHelper ==
    /\ chatPage = PlainPage
    /\ helper = IdleHelper
    /\ extraction = NoExtraction
    /\ refUse = NoRefs

Init == SchedInit /\ NoPrompt /\ NoAsk /\ NoPoll /\ NoTabs /\ NoHelper
Next ==
    \/ (\E input \in SchedInputs : CreateAskJob(input)) /\ UNCHANGED <<promptVars, askVars, pollVars, tabVars, pageVars>>
    \/ CreateAskJobRun /\ UNCHANGED <<promptVars, askVars, pollVars, tabVars, pageVars>>
    \/ (\E jobId \in JobIds : RunAskJobAgain(jobId)) /\ UNCHANGED <<promptVars, askVars, pollVars, tabVars, pageVars>>
    \/ (\E jobId \in JobIds : RunAskJobFinish(jobId)) /\ UNCHANGED <<promptVars, askVars, pollVars, tabVars, pageVars>>
    \/ Tick /\ UNCHANGED <<promptVars, askVars, pollVars, tabVars, pageVars>>

Spec == Init /\ [][Next]_vars

(***************************************************************************)
(* The scheduler with a caller of the status and result tools.             *)
(***************************************************************************)
WaitJobIds == 1..MaxWaitJobs

WaitNext ==
    \/ nextId <= MaxWaitJobs /\ CreateAskJob(PlainRequest)
          /\ UNCHANGED <<promptVars, askVars, pollVars, tabVars, pageVars>>
    \/ CreateAskJobRun /\ UNCHANGED <<promptVars, askVars, pollVars, tabVars, pageVars>>
    \/ (\E jobId \in WaitJobIds : RunAskJobFinish(jobId))
          /\ UNCHANGED <<promptVars, askVars, pollVars, tabVars, pageVars>>
    \/ (\E c \in Callers, jobId \in WaitJobIds : Status(c, jobId))
          /\ UNCHANGED <<promptVars, askVars, pollVars, tabVars, pageVars>>
    \/ (\E c \in Callers, jobId \in WaitJobIds, t \in WaitTimeouts, p \in PollIntervals :
          ResultCall(c, jobId, t, p)) /\ UNCHANGED <<promptVars, askVars, pollVars, tabVars, pageVars>>
    \/ (\E c \in Callers : WaitWake(c)) /\ UNCHANGED <<promptVars, askVars, pollVars, tabVars, pageVars>>
    \/ Tick /\ UNCHANGED <<promptVars, askVars, pollVars, tabVars, pageVars>>

SpecWait == Init /\ [][WaitNext]_vars

(***************************************************************************)
(* chatgpt_webui_prompt (index.ts:374-438, 603-631).                       *)
(***************************************************************************)
\* the wait budget above which a request runs in the background (index.ts:234)
LongWaitMs == 300000
\* poll_interval_ms when the caller gives none (index.ts:398), in clock units
DefaultPollIntervalMs == 2

\* mutant: a wait budget of exactly five minutes already counts as long
shouldRunInBackground_atLeast(input) ==
    \/ input.deep_research \/ input.deep_research_site_mode # "undefined"
    \/ input.create_image
    \/ input.model_mode = "pro" \/ input.model_mode = "thinking"
    \/ TestLongRunWord(ToLowerCase(input.model))
    \/ input.wait_timeout_ms >= LongWaitMs

\* shouldRunInBackground (index.ts:216-235)
shouldRunInBackground(input) ==
    LET model == ToLowerCase(input.model)
    IN IF input.deep_research \/ input.deep_research_site_mode # "undefined" THEN TRUE
       ELSE IF input.create_image THEN TRUE
       ELSE IF input.model_mode = "pro" \/ input.model_mode = "thinking" THEN TRUE
       ELSE IF TestLongRunWord(model) THEN TRUE
       ELSE input.wait_timeout_ms > LongWaitMs

\* resolvedMode of promptHandler (index.ts:381-382)
ResolvedMode(req) ==
    IF req.mode = "auto"
    THEN IF shouldRunInBackground(req.input) THEN "background" ELSE "wait"
    ELSE req.mode

Str_gpt52 == <<"g", "p", "t", "-", "5", "-", "2">>
Str_gpt52pro == <<"g", "p", "t", "-", "5", "-", "2", "-", "p", "r", "o">>
Str_GPT52PRO == <<"G", "P", "T", "-", "5", "-", "2", "-", "P", "R", "O">>
Str_gpt5pro == <<"g", "p", "t", "5", "p", "r", "o">>
Str_gpt51thinking ==
    <<"g", "p", "t", "-", "5", "-", "1", "-", "t", "h", "i", "n", "k", "i", "n", "g">>
Str_prompt == <<"p", "r", "o", "m", "p", "t">>
ModelIds ==
    {Str_empty, Str_gpt52, Str_gpt52pro, Str_GPT52PRO, Str_gpt5pro, Str_research,
     Str_gpt51thinking, Str_prompt}

PromptInputs ==
    {AskToolInput(Str_hi, m, mm, "undefined", dr, sm, ci, wt) :
        m \in ModelIds, mm \in {"undefined", "auto", "instant", "thinking", "pro"},
        dr \in BOOLEAN, sm \in {"undefined", "search_web"}, ci \in BOOLEAN,
        wt \in {0, LongWaitMs, LongWaitMs + 1}}

PromptRequests ==
    [input : PromptInputs, mode : {"auto", "wait", "background"},
     wait_for_ms : {0, 1}, poll_interval_ms : {0, 1}]

PromptInit ==
    /\ SchedInit
    /\ NoAsk
    /\ NoPoll
    /\ NoTabs
    /\ NoHelper
    /\ request \in PromptRequests
    /\ promptCall = IdlePrompt

\* promptHandler, resolved to wait: `await withClient(...)` (index.ts:384-385)
PromptInlineCall ==
    /\ pc = "idle"
    /\ promptCall.pc = "ready"
    /\ ResolvedMode(request) = "wait"
    /\ promptCall' = [IdlePrompt EXCEPT !.pc = "inline", !.mode = "wait"]
    /\ UNCHANGED <<schedVars, request, askVars, pollVars, tabVars, pageVars>>

\* the inline ask settles: the formatted answer, or the error is thrown
\* (index.ts:385-394)
PromptInlineReturn ==
    /\ pc = "idle"
    /\ promptCall.pc = "inline"
    /\ \E outcome \in WithClientAskOutcomes(request.input) :
          promptCall' = [promptCall EXCEPT !.pc = "done",
                            !.state = IF outcome[1] THEN "succeeded" ELSE "error"]
    /\ UNCHANGED <<schedVars, request, askVars, pollVars, tabVars, pageVars>>

\* promptHandler, resolved to background: createAskJob (index.ts:397)
PromptSubmit ==
    /\ promptCall.pc = "ready"
    /\ ResolvedMode(request) = "background"
    /\ CreateAskJob(request.input)
    /\ promptCall' = [IdlePrompt EXCEPT !.pc = "created", !.mode = "background",
                                        !.run_id = nextId]
    /\ UNCHANGED <<request, askVars, pollVars, tabVars, pageVars>>

\* the response of promptHandler once waitForAskJob has returned w, or
\* without a wait (index.ts:400-437): in each case the job's state
PromptResponse(call, w) ==
    [call EXCEPT !.pc = IF w.pc = "sleeping" THEN "waiting" ELSE "done",
                 !.state = IF w.pc = "sleeping" THEN "none" ELSE w.state,
                 !.w = w]

\* createAskJob starts the worker and returns; promptHandler goes on to
\* waitForAskJob when wait_for_ms is given (index.ts:397-401)
PromptSubmitRun ==
    /\ promptCall.pc = "created"
    /\ CreateAskJobRun
    /\ LET jobId == promptCall.run_id
           pollIntervalMs == IF request.poll_interval_ms = 0
                             THEN DefaultPollIntervalMs ELSE request.poll_interval_ms
           w0 == [IdleWaiter EXCEPT !.op = "prompt", !.job = jobId, !.found = TRUE,
                                    !.startedAt = now, !.timeout = request.wait_for_ms,
                                    !.poll = pollIntervalMs]
       IN promptCall' = PromptResponse(promptCall,
             IF request.wait_for_ms > 0
             THEN WaitLoop(w0, jobs', now)
             ELSE Returned(w0, jobs'[jobId].state))
    /\ UNCHANGED <<request, askVars, pollVars, tabVars, pageVars>>

\* the sleep of waitForAskJob ends in promptHandler (index.ts:401)
PromptWake ==
    /\ pc = "idle"
    /\ promptCall.pc = "waiting"
    /\ now >= promptCall.w.wakeAt
    /\ promptCall' = PromptResponse(promptCall, WaitLoop(promptCall.w, jobs, now))
    /\ UNCHANGED <<schedVars, request, askVars, pollVars, tabVars, pageVars>>

PromptNext ==
    \/ PromptInlineCall
    \/ PromptInlineReturn
    \/ PromptSubmit
    \/ PromptSubmitRun
    \/ PromptWake
    \/ (\E jobId \in JobIds : RunAskJobFinish(jobId)) /\ UNCHANGED <<promptVars, askVars, pollVars, tabVars, pageVars>>
    \/ Tick /\ UNCHANGED <<promptVars, askVars, pollVars, tabVars, pageVars>>

SpecPrompt == PromptInit /\ [][PromptNext]_vars

(***************************************************************************)
(* ChatgptWebuiClient.ask and its attempts                                 *)
(* (chatgpt-webui-client.ts:2901-2948, 2546-2866, 1514-1562, 1639-1688).   *)
(***************************************************************************)
\* maxAttempts of ask (chatgpt-webui-client.ts:2924)
AskMaxAttempts == 3
\* maxAttempts of #camofoxCreateTab (chatgpt-webui-client.ts:1523)
CreateTabMaxAttempts == 4
\* attempts of #camofoxFetchJsonDocument (chatgpt-webui-client.ts:1640)
FetchAttempts == 4
\* rounds of the image download loop (chatgpt-webui-client.ts:2628)
DownloadAttempts == 8

Str_gpt52instant ==
    <<"g", "p", "t", "-", "5", "-", "2", "-", "i", "n", "s", "t", "a", "n", "t">>
Str_gpt52thinking ==
    <<"g", "p", "t", "-", "5", "-", "2", "-", "t", "h", "i", "n", "k", "i", "n", "g">>
Str_auto == <<"a", "u", "t", "o">>
Str_research_padded == <<" ">> \o Str_research

\* modeToDefaultModelSlug (chatgpt-webui-client.ts:1051-1064); <<>> is null
modeToDefaultModelSlug(mode) ==
    CASE mode = "auto" -> Str_gpt52
      [] mode = "instant" -> Str_gpt52instant
      [] mode = "thinking" -> Str_gpt52thinking
      [] mode = "pro" -> Str_gpt52pro
      [] OTHER -> <<>>

\* requestedModel of ask (chatgpt-webui-client.ts:2914-2916)
RequestedModel(input) ==
    IF deepResearchRequested(input) THEN Str_research
    ELSE IF Trim(input.model) # <<>> THEN Trim(input.model)
    ELSE IF modeToDefaultModelSlug(input.modelMode) # <<>>
         THEN modeToDefaultModelSlug(input.modelMode)
    ELSE modeToDefaultModelSlug("auto")

\* the messages an error can carry, by what the catch blocks test
Err_crash == "Page crashed"
Err_500 == "camofox_request_failed_500"
Err_timeout == "camofox_assistant_response_timeout"
Err_login_required == "camofox_login_required"
Err_workspace_not_resolved == "camofox_workspace_selection_not_resolved"
Err_research_entry_not_found == "camofox_deep_research_entry_not_found"
Err_prompt_input_not_found == "camofox_prompt_input_not_found"
Err_something_went_wrong == "camofox_ui_error_something_went_wrong"
Err_camofox_invalid_mode ==
    "camofox_invalid_mode_combination_create_image_and_deep_research"
Err_missing_tab_id == "camofox_create_tab_failed_missing_tab_id"
Err_no_json == "camofox_json_document_not_found_in_snapshot"

\* mutant: every sleep between attempts is one second long
Backoff_fixed(attempt) == 1000

\* the delay slept after the failed attempt of index `attempt`, in ask and
\* in #camofoxCreateTab (chatgpt-webui-client.ts:1548, 2943)
Backoff(attempt) == 1000 * (attempt + 1)

\* the test of #camofoxCreateTab and #camofoxFetchJsonDocument
\* (chatgpt-webui-client.ts:1538-1541, 1670-1673)
TabRecoverable(e) == e = Err_crash
\* mutant: ask takes every error for a crash of the backend
AskRecoverable_any(e) == TRUE

\* the test of ask (chatgpt-webui-client.ts:2933-2936)
AskRecoverable(e) == e \in {Err_crash, Err_500}

\* effectiveModelSlug, wantsImageGeneration and shouldUseDeepResearch of
\* #askViaCamofox (chatgpt-webui-client.ts:2553-2560), given the model ask
\* has put into normalizedInput
EffectiveModelSlug(input, model) ==
    IF Trim(model) # <<>> THEN Trim(model) ELSE modeToDefaultModelSlug(input.modelMode)
wantsImageGeneration(input) == input.createImage = TRUE
shouldUseDeepResearch(input, model) ==
    \/ input.deepResearch = TRUE
    \/ input.deepResearchSiteMode # "undefined"
    \/ EffectiveModelSlug(input, model) = Str_research

\* mutant: the prompt is typed and submitted before the configuration
Steps_configLast(input, model) ==
    <<"importSessionCookie", "navigate", "wait", "resolveWorkspace",
      "dismissCookieDialogs", "assertAuthenticated", "typeWithFallback", "submitPrompt">>
    \o (IF shouldUseDeepResearch(input, model) THEN <<"enableDeepResearch">> ELSE <<>>)
    \o (IF wantsImageGeneration(input) THEN <<"enableCreateImage">> ELSE <<>>)
    \o (IF EffectiveModelSlug(input, model) \notin {<<>>, Str_research, Str_auto}
        THEN <<"selectModel">> ELSE <<>>)
    \o (IF input.reasoningEffort # "undefined" THEN <<"setReasoningEffort">> ELSE <<>>)
    \o (IF wantsImageGeneration(input)
        THEN <<"waitForImageGenerationToSettle", "tryWait">>
        ELSE <<"pollAssistantText">>)

\* the awaited steps of one attempt between tab creation and the image
\* download loop, in program order (chatgpt-webui-client.ts:2569-2624)
Steps(input, model) ==
    <<"importSessionCookie", "navigate", "wait", "resolveWorkspace",
      "dismissCookieDialogs", "assertAuthenticated">>
    \o (IF shouldUseDeepResearch(input, model) THEN <<"enableDeepResearch">> ELSE <<>>)
    \o (IF wantsImageGeneration(input) THEN <<"enableCreateImage">> ELSE <<>>)
    \o (IF EffectiveModelSlug(input, model) \notin {<<>>, Str_research, Str_auto}
        THEN <<"selectModel">> ELSE <<>>)
    \o (IF input.reasoningEffort # "undefined" THEN <<"setReasoningEffort">> ELSE <<>>)
    \o <<"typeWithFallback", "submitPrompt">>
    \o (IF wantsImageGeneration(input)
        THEN <<"waitForImageGenerationToSettle", "tryWait">>
        ELSE <<"pollAssistantText">>)

\* the errors a step throws for what it finds on the page
\* (chatgpt-webui-client.ts:2004, 2027, 2113, 2317, 2418-2422, 2472)
UiStateErrors(stepName) ==
    CASE stepName = "resolveWorkspace" -> {Err_workspace_not_resolved}
      [] stepName = "assertAuthenticated" -> {Err_login_required}
      [] stepName = "enableDeepResearch" -> {Err_research_entry_not_found}
      [] stepName = "typeWithFallback" -> {Err_prompt_input_not_found}
      [] stepName = "pollAssistantText" ->
           {Err_login_required, Err_something_went_wrong, Err_timeout}
      [] OTHER -> {}

\* mutant: an error of model selection is not caught
Swallows_allButModelSelection(stepName) ==
    stepName \in {"wait", "dismissCookieDialogs", "enableCreateImage", "tryWait"}

\* the steps whose errors are caught, by the step itself or by the try
\* block around its call (chatgpt-webui-client.ts:1705-1711, 2008-2022,
\* 2571-2575, 2585-2601)
Swallows(stepName) ==
    stepName \in {"wait", "dismissCookieDialogs", "enableCreateImage", "selectModel",
                  "tryWait"}

\* the configuration steps among them: a swallowed failure leaves the page
\* short of what the step was to set up
Degrades(stepName) ==
    Swallows(stepName) /\ stepName \notin {"wait", "tryWait"}

\* what a step can throw: the errors of its backend requests and those of
\* the page; the steps with no error catch their own
StepErrors(stepName) ==
    IF Swallows(stepName) THEN {}
    ELSE {Err_crash, Err_500} \cup UiStateErrors(stepName)

\* a request of the given kind, sent by a step of the running attempt,
\* reaches the backend
Issue(r, kind) == [r EXCEPT !.issued = @ \cup {kind}, !.attempt = @ \cup {kind}]
\* the running attempt is over: the next request is another attempt's
EndAttempt(r) == [r EXCEPT !.attempt = {}]
\* POST /tabs answers with the id of a new tab, one no open tab has
FreshTab(r) == CHOOSE id \in 1..(Cardinality(r.undeleted) + 1) : id \notin r.undeleted
\* #camofoxDeleteTab (chatgpt-webui-client.ts:1554-1562)
DeleteTab(r, tabId) == [Issue(r, "DELETE /tabs") EXCEPT !.undeleted = @ \ {tabId}]
\* #camofoxRestartBrowser (chatgpt-webui-client.ts:1506-1512)
RestartBrowser(r) == [r EXCEPT !.issued = @ \cup {"POST /start"}]

AskInputs ==
    {toAskClientInput(AskToolInput(p, m, mm, e, dr, sm, ci, 0)) :
        p \in {Str_hi, Str_hi_padded, Str_blank},
        m \in {Str_empty, Str_research, Str_research_padded, Str_gpt52pro},
        mm \in {"undefined", "pro"}, e \in {"undefined", "extended"},
        dr \in BOOLEAN, sm \in {"undefined", "search_web"}, ci \in BOOLEAN}

AskInit ==
    /\ SchedInit
    /\ NoPrompt
    /\ NoPoll
    /\ NoTabs
    /\ NoHelper
    /\ askInput \in AskInputs
    /\ askCall = IdleAsk
    /\ remote = NoRemote

\* ask up to its first attempt (chatgpt-webui-client.ts:2901-2925)
AskCall ==
    /\ askCall.pc = "ready"
    /\ askCall' =
         IF AskPrecheck(askInput) # "ok"
         THEN [askCall EXCEPT !.pc = "threw", !.error = AskPrecheck(askInput)]
         ELSE [askCall EXCEPT !.pc = "enter", !.model = RequestedModel(askInput)]
    /\ UNCHANGED <<askInput, remote, schedVars, promptVars, pollVars, tabVars, pageVars>>

\* the catch block of ask for an attempt that threw e
\* (chatgpt-webui-client.ts:2930-2944)
AskCatch(call, e) ==
    IF ~AskRecoverable(e) \/ call.attempts = AskMaxAttempts
    THEN [call EXCEPT !.pc = "threw", !.error = e, !.pending = "none"]
    ELSE [call EXCEPT !.pc = "enter", !.pending = "none",
                      !.slept = Backoff(call.attempts - 1)]

\* the restart ask requests before another attempt
\* (chatgpt-webui-client.ts:2942)
AskCatchRemote(call, e, r) ==
    IF AskCatch(call, e).pc = "enter" THEN RestartBrowser(r) ELSE r

\* #askViaCamofox up to its try block (chatgpt-webui-client.ts:2546-2566)
AskViaCamofoxEnter ==
    /\ askCall.pc = "enter"
    /\ LET call == [askCall EXCEPT !.attempts = @ + 1, !.tabId = 0, !.step = 1,
                                   !.createAttempt = 0, !.download = 0,
                                   !.settle = "none", !.conversationId = "", !.slept = 0]
           invalid == /\ wantsImageGeneration(askInput)
                      /\ shouldUseDeepResearch(askInput, askCall.model)
       IN /\ askCall' = IF invalid THEN AskCatch(call, Err_camofox_invalid_mode)
                       ELSE [call EXCEPT !.pc = "createTab"]
          /\ remote' = IF invalid
                       THEN AskCatchRemote(call, Err_camofox_invalid_mode, EndAttempt(remote))
                       ELSE EndAttempt(remote)
    /\ UNCHANGED <<askInput, schedVars, promptVars, pollVars, tabVars, pageVars>>

\* one round of the loop of #camofoxCreateTab (chatgpt-webui-client.ts:
\* 1526-1549): <<"tab", r>> when it returns a tab, <<"again", r>> when it
\* restarts the browser for another round, <<e, r>> when it throws e
CreateTabRound(r, attempt) ==
    {<<"tab", [Issue(r, "POST /tabs") EXCEPT !.undeleted = @ \cup {FreshTab(r)}]>>}
    \cup {IF TabRecoverable(e) /\ attempt # CreateTabMaxAttempts - 1
          THEN <<"again", RestartBrowser(Issue(r, "POST /tabs"))>>
          ELSE <<e, Issue(r, "POST /tabs")>> :
            e \in {Err_crash, Err_500, Err_missing_tab_id}}

\* `tabId = await this.#camofoxCreateTab()` of #askViaCamofox
\* (chatgpt-webui-client.ts:2567)
AskCreateTab ==
    /\ askCall.pc = "createTab"
    /\ \E round \in CreateTabRound(remote, askCall.createAttempt) :
         /\ remote' = round[2]
         /\ askCall' =
              CASE round[1] = "tab" ->
                     [askCall EXCEPT !.pc = "steps", !.tabId = FreshTab(remote),
                                     !.createAttempt = 0, !.slept = 0]
                [] round[1] = "again" ->
                     [askCall EXCEPT !.createAttempt = @ + 1,
                                     !.slept = Backoff(askCall.createAttempt)]
                [] OTHER -> [askCall EXCEPT !.pc = "finally", !.pending = round[1],
                                            !.slept = 0]
    /\ UNCHANGED <<askInput, schedVars, promptVars, pollVars, tabVars, pageVars>>

\* where the attempt goes once the image download loop is left without
\* images: the link and snapshot heuristics (chatgpt-webui-client.ts:2651-2654)
ToHeuristics(call) ==
    [call EXCEPT !.pc = "heuristics", !.download = 0, !.fetchAttempt = 0,
                 !.createAttempt = 0, !.lastError = "none"]
\* the attempt leaves its try block, to return or to throw `outcome`
ToFinally(call, outcome) ==
    [call EXCEPT !.pc = "finally", !.pending = outcome, !.step = 0, !.download = 0,
                 !.fetchAttempt = 0, !.createAttempt = 0, !.lastError = "none",
                 !.degraded = {}]
\* a round of the download loop ended with no image: sleep, then the next
\* round if one is left (chatgpt-webui-client.ts:2628, 2644)
NextDownload(call) ==
    IF call.download + 1 < DownloadAttempts
    THEN [call EXCEPT !.pc = "download", !.download = @ + 1, !.fetchAttempt = 0,
                      !.createAttempt = 0, !.lastError = "none"]
    ELSE ToHeuristics(call)

\* what #camofoxWaitForImageGenerationToSettle returns
\* (chatgpt-webui-client.ts:2475-2535): from inside its loop once the page
\* has settled, or after the loop when the deadline has passed; either way
\* with the conversation id it last read off the page url, null when it
\* read none.  It has no throw of its own.
ImageSettleOutcomes == [how : {"settled", "deadline"}, conversationId : {"", "c1"}]

\* the test that guards the image download loop (chatgpt-webui-client.ts:2626)
DownloadsImages(call) == call.conversationId # ""

\* one awaited step of the try block of #askViaCamofox
\* (chatgpt-webui-client.ts:2569-2626)
AskStep ==
    /\ askCall.pc = "steps"
    /\ LET steps == Steps(askInput, askCall.model)
           stepName == steps[askCall.step]
           after == IF stepName = "waitForImageGenerationToSettle"
                    THEN {[askCall EXCEPT !.step = @ + 1, !.settle = settled.how,
                                          !.conversationId = settled.conversationId] :
                            settled \in ImageSettleOutcomes}
                    ELSE IF stepName = "submitPrompt"
                    THEN {[askCall EXCEPT !.step = @ + 1, !.degraded = {}]}
                    ELSE IF askCall.step < Len(steps)
                    THEN {[askCall EXCEPT !.step = @ + 1]}
                         \cup (IF Degrades(stepName)
                               THEN {[askCall EXCEPT !.step = @ + 1,
                                                     !.degraded = @ \cup {stepName}]}
                               ELSE {})
                    ELSE IF wantsImageGeneration(askInput)
                    THEN {IF DownloadsImages(askCall)
                          THEN [askCall EXCEPT !.pc = "download"]
                          ELSE ToHeuristics(askCall)}
                    ELSE {ToFinally(askCall, "return")}
       IN /\ remote' = Issue(remote, stepName)
          /\ \/ askCall' \in after
             \/ \E e \in StepErrors(stepName) : askCall' = ToFinally(askCall, e)
    /\ UNCHANGED <<askInput, schedVars, promptVars, pollVars, tabVars, pageVars>>

\* one round of the image download loop up to the call of
\* #downloadGeneratedImages (chatgpt-webui-client.ts:2628-2645, 1409-1452)
AskDownload ==
    /\ askCall.pc = "download"
    /\ remote' = Issue(remote, "downloadGeneratedImagesFromTab")
    /\ \/ askCall' = ToFinally(askCall, "return")        \* images found: break
       \/ askCall' = NextDownload(askCall)               \* none found
       \/ askCall' = [askCall EXCEPT !.pc = "fetch.createTab", !.fetchAttempt = 0,
                                     !.createAttempt = 0, !.fetchTab = 0,
                                     !.lastError = "none"]
    /\ UNCHANGED <<askInput, schedVars, promptVars, pollVars, tabVars, pageVars>>

\* the catch block of #camofoxFetchJsonDocument for a round that threw e
\* (chatgpt-webui-client.ts:1667-1677)
FetchCatch(call, e) ==
    [call EXCEPT !.pc = "fetch.finally", !.lastError = e, !.createAttempt = 0,
                 !.slept = 0]
FetchCatchRemote(r, e) == IF TabRecoverable(e) THEN RestartBrowser(r) ELSE r

\* `tabId = await this.#camofoxCreateTab()` of #camofoxFetchJsonDocument
\* (chatgpt-webui-client.ts:1644-1646)
AskFetchCreateTab ==
    /\ askCall.pc = "fetch.createTab"
    /\ \E round \in CreateTabRound(remote, askCall.createAttempt) :
         CASE round[1] = "tab" ->
                /\ askCall' = [askCall EXCEPT !.pc = "fetch.body", !.createAttempt = 0,
                                              !.fetchTab = FreshTab(remote), !.slept = 0]
                /\ remote' = round[2]
           [] round[1] = "again" ->
                /\ askCall' = [askCall EXCEPT !.createAttempt = @ + 1,
                                              !.slept = Backoff(askCall.createAttempt)]
                /\ remote' = round[2]
           [] OTHER ->
                /\ askCall' = FetchCatch(askCall, round[1])
                /\ remote' = FetchCatchRemote(round[2], round[1])
    /\ UNCHANGED <<askInput, schedVars, promptVars, pollVars, tabVars, pageVars>>

\* the rest of the try block of one round of #camofoxFetchJsonDocument
\* (chatgpt-webui-client.ts:1647-1666)
AskFetchBody ==
    /\ askCall.pc = "fetch.body"
    /\ \/ /\ askCall' = [askCall EXCEPT !.pc = "fetch.finally", !.pending = "doc"]
          /\ remote' = Issue(remote, "fetchJsonDocument")
       \/ /\ askCall' = FetchCatch(askCall, Err_no_json)
          /\ remote' = Issue(remote, "fetchJsonDocument")
       \/ \E e \in {Err_crash, Err_500} :
            /\ askCall' = FetchCatch(askCall, e)
            /\ remote' = FetchCatchRemote(Issue(remote, "fetchJsonDocument"), e)
    /\ UNCHANGED <<askInput, schedVars, promptVars, pollVars, tabVars, pageVars>>

\* the test of the finally block of a round of #camofoxFetchJsonDocument
\* (chatgpt-webui-client.ts:1679)
FetchFinallyDeletes(call) == call.fetchTab # 0

\* the finally block of a round of #camofoxFetchJsonDocument and what
\* follows it: the document returned to #downloadGeneratedImages, another
\* round, or lastError thrown into the catch of the download loop
\* (chatgpt-webui-client.ts:1678-1687, 1402-1407, 2634-2648)
AskFetchFinally ==
    /\ askCall.pc = "fetch.finally"
    /\ remote' = IF FetchFinallyDeletes(askCall)
                 THEN DeleteTab(remote, askCall.fetchTab) ELSE remote
    /\ LET call == [askCall EXCEPT !.fetchTab = 0, !.pending = "none"]
       IN IF askCall.pending = "doc"
          THEN \/ askCall' = ToFinally(call, "return")   \* images built: break
               \/ askCall' = NextDownload(call)          \* no pointer in it
          ELSE IF askCall.fetchAttempt + 1 < FetchAttempts
          THEN askCall' = [call EXCEPT !.pc = "fetch.createTab", !.fetchAttempt = @ + 1,
                                       !.createAttempt = 0]
          ELSE askCall' = ToHeuristics(call)
    /\ UNCHANGED <<askInput, schedVars, promptVars, pollVars, tabVars, pageVars>>

\* the collection of image links when the download loop gave none
\* (chatgpt-webui-client.ts:2654-2829): the first three requests are not
\* guarded, the later fallbacks catch their own errors
AskHeuristics ==
    /\ askCall.pc = "heuristics"
    /\ remote' = Issue(remote, "getLinks")
    /\ \/ askCall' = ToFinally(askCall, "return")
       \/ \E e \in {Err_crash, Err_500} : askCall' = ToFinally(askCall, e)
    /\ UNCHANGED <<askInput, schedVars, promptVars, pollVars, tabVars, pageVars>>

\* mutant: the tab is deleted only when the attempt returns
AskFinallyDeletes_onReturn(call) == call.tabId # 0 /\ call.pending = "return"

\* the test of the finally block of #askViaCamofox
\* (chatgpt-webui-client.ts:2862)
AskFinallyDeletes(call) == call.tabId # 0

\* the finally block of #askViaCamofox, then the attempt's result returned
\* by ask or its error handled by the catch of ask
\* (chatgpt-webui-client.ts:2861-2865, 2929-2944)
AskFinally ==
    /\ askCall.pc = "finally"
    /\ LET deleted == IF AskFinallyDeletes(askCall)
                      THEN DeleteTab(remote, askCall.tabId) ELSE remote
           call == [askCall EXCEPT !.tabId = 0]
       IN IF askCall.pending = "return"
          THEN /\ askCall' = [call EXCEPT !.pc = "returned", !.pending = "none"]
               /\ remote' = EndAttempt(deleted)
          ELSE /\ askCall' = AskCatch(call, askCall.pending)
               /\ remote' = AskCatchRemote(call, askCall.pending, EndAttempt(deleted))
    /\ UNCHANGED <<askInput, schedVars, promptVars, pollVars, tabVars, pageVars>>

AskNext ==
    \/ AskCall
    \/ AskViaCamofoxEnter
    \/ AskCreateTab
    \/ AskStep
    \/ AskDownload
    \/ AskFetchCreateTab
    \/ AskFetchBody
    \/ AskFetchFinally
    \/ AskHeuristics
    \/ AskFinally

SpecAsk == AskInit /\ [][AskNext]_vars

(***************************************************************************)
(* extractLikelyAssistantTextFromSnapshot and looksLikePromptText          *)
(* (chatgpt-webui-client.ts:440-738).  A snapshot is the sequence of its   *)
(* non-empty lines, trimmed and without the leading dash; a line is the    *)
(* role it begins with and what follows the role: the quoted name of a     *)
(* heading or button, the text after the colon of any other role.          *)
(***************************************************************************)
Str_you_said == <<"Y", "o", "u", " ", "s", "a", "i", "d", ":">>
Str_chatgpt_said == <<"C", "h", "a", "t", "G", "P", "T", " ", "s", "a", "i", "d", ":">>
Str_copy == <<"C", "o", "p", "y">>
Str_sources == <<"S", "o", "u", "r", "c", "e", "s">>
Str_ask_anything == <<"A", "s", "k", " ", "a", "n", "y", "t", "h", "i", "n", "g">>
Str_mistakes == <<"C", "h", "a", "t", "G", "P", "T", " ", "c", "a", "n", " ", "m", "a", "k", "e", " ", "m", "i", "s", "t", "a", "k", "e", "s", ".">>

Line(role, value) == [role |-> role, value |-> value]

\* /^heading\s+"You said:"/i and /^heading\s+"ChatGPT said:"/i
IsYouSaid(line) ==
    line.role = "heading" /\ ToLowerCase(line.value) = ToLowerCase(Str_you_said)
IsChatGptSaid(line) ==
    line.role = "heading" /\ ToLowerCase(line.value) = ToLowerCase(Str_chatgpt_said)
\* the lines at which the collection of an assistant turn stops
\* (chatgpt-webui-client.ts:521-533); Copy stands for the six action buttons
StopsTurn(line) ==
    \/ IsYouSaid(line)
    \/ line.role \in {"article", "complementary", "dialog", "main", "banner"}
    \/ line.role = "button" /\ ToLowerCase(line.value) = ToLowerCase(Str_copy)
\* the roles of inline text (chatgpt-webui-client.ts:603-605, 684-686)
InlineRoles ==
    {"text", "strong", "emphasis", "em", "code", "mark", "del", "ins", "sub", "sup",
     "abbr", "time", "span", "link"}

\* value.startsWith('"') && value.endsWith('"') ? value.slice(1, -1) : value
Unquote(value) ==
    IF value # <<>> /\ value[1] = "\"" /\ value[Len(value)] = "\""
    THEN SubSeq(value, 2, Len(value) - 1)
    ELSE value

\* Array.prototype.join
RECURSIVE JoinWith(_, _)
JoinWith(parts, glue) ==
    IF parts = <<>> THEN <<>>
    ELSE IF Len(parts) = 1 THEN parts[1]
    ELSE parts[1] \o glue \o JoinWith(Tail(parts), glue)

\* .replace(/\s+([.,;:!?)\]}])/g, "$1")
RECURSIVE ClosePunctuation(_)
ClosePunctuation(s) ==
    IF s = <<>> THEN <<>>
    ELSE IF /\ IsSpace(s[1])
            /\ TrimStart(s) # <<>>
            /\ TrimStart(s)[1] \in {".", ",", ";", ":", "!", "?", ")", "]", "}"}
    THEN ClosePunctuation(TrimStart(s))
    ELSE <<s[1]>> \o ClosePunctuation(Tail(s))

\* .replace(/\s+/g, " ")
RECURSIVE CollapseRuns(_)
CollapseRuns(s) ==
    IF s = <<>> THEN <<>>
    ELSE IF IsSpace(s[1]) THEN <<" ">> \o CollapseRuns(TrimStart(s))
    ELSE <<s[1]>> \o CollapseRuns(Tail(s))

\* collapseWhitespace (chatgpt-webui-client.ts:440-442)
collapseWhitespace(s) == Trim(CollapseRuns(s))

\* s.includes(w)
Includes(s, w) == \E at \in 0..Len(s) : OccursAt(s, w, at)

PromptSubstringMinLength == 20

\* mutant: only the exact text of the prompt counts as the prompt
looksLikePromptText_exact(candidate, promptNormalized) == candidate = promptNormalized

\* looksLikePromptText (chatgpt-webui-client.ts:451-474); 0.6 as 6/10
looksLikePromptText(candidate, promptNormalized) ==
    LET cn == collapseWhitespace(candidate)
        pn == collapseWhitespace(promptNormalized)
    IN /\ promptNormalized # <<>>
       /\ cn # <<>> /\ pn # <<>>
       /\ \/ cn = pn
          \/ /\ Len(pn) >= PromptSubstringMinLength
             /\ 10 * Len(cn) >= 6 * Len(pn)
             /\ Includes(pn, cn)
          \/ /\ Len(pn) >= PromptSubstringMinLength
             /\ 10 * Len(pn) >= 6 * Len(cn)
             /\ Includes(cn, pn)

\* /^Ask anything$/i
IsAskAnything(value) == ToLowerCase(value) = ToLowerCase(Str_ask_anything)

\* the character U+0060 of a code fence, by its name
Grave == "grave"

\* flushParagraph (chatgpt-webui-client.ts:508-516)
FlushParagraph(blocks, parts) ==
    IF parts = <<>> THEN blocks
    ELSE Append(blocks, ClosePunctuation(JoinWith(parts, <<" ">>)))

\* the inner loop of the primary path from line j on, with the blocks and
\* the paragraph parts collected so far, and the flush after the loop
\* (chatgpt-webui-client.ts:518-619): the blocks of the turn
RECURSIVE CollectBlocks(_, _, _, _)
CollectBlocks(lines, j, blocks, parts) ==
    IF j > Len(lines) \/ StopsTurn(lines[j]) THEN FlushParagraph(blocks, parts)
    ELSE LET line == lines[j]
             value == Unquote(Trim(line.value))
             flushed == FlushParagraph(blocks, parts)
         IN CASE line.role = "button" -> CollectBlocks(lines, j + 1, blocks, parts)
              [] line.role = "heading" ->
                   CollectBlocks(lines, j + 1,
                       IF Trim(line.value) # <<>>
                       THEN Append(flushed, <<"\n", "#", "#", " ">> \o Trim(line.value))
                       ELSE flushed, <<>>)
              [] line.role = "paragraph" ->
                   CollectBlocks(lines, j + 1, flushed,
                       IF value # <<>> /\ ~IsAskAnything(value) THEN <<value>> ELSE <<>>)
              [] line.role = "code" ->
                   CollectBlocks(lines, j + 1,
                       IF value # <<>>
                       THEN Append(flushed, <<Grave, Grave, Grave, "\n">> \o value
                                               \o <<"\n", Grave, Grave, Grave>>)
                       ELSE flushed, <<>>)
              [] line.role \in {"blockquote", "list", "listitem"} ->
                   CollectBlocks(lines, j + 1, flushed, <<>>)
              [] line.role = "separator" ->
                   CollectBlocks(lines, j + 1, Append(flushed, <<"-", "-", "-">>), <<>>)
              [] line.role \in InlineRoles ->
                   CollectBlocks(lines, j + 1, blocks,
                       IF value # <<>> /\ ~IsAskAnything(value)
                       THEN Append(parts, value) ELSE parts)
              [] OTHER -> CollectBlocks(lines, j + 1, blocks, parts)

\* the text of the assistant turn whose heading is line i: its blocks
\* joined by line feeds (chatgpt-webui-client.ts:621-625)
TurnText(lines, i) == JoinWith(CollectBlocks(lines, i + 1, <<>>, <<>>), <<"\n">>)
\* the turn has blocks
TurnHasBlocks(lines, i) == CollectBlocks(lines, i + 1, <<>>, <<>>) # <<>>

\* the headings whose turn is pushed to assistantChunks
\* (chatgpt-webui-client.ts:495-625)
ChunkHeadings(lines) ==
    {i \in DOMAIN lines : IsChatGptSaid(lines[i]) /\ TurnHasBlocks(lines, i)}

\* noisePatterns (chatgpt-webui-client.ts:638-657), by three of them
IsNoise(normalized) ==
    \/ IsAskAnything(normalized)
    \/ ToLowerCase(normalized) = ToLowerCase(Str_sources)
    \/ OccursAt(ToLowerCase(normalized), ToLowerCase(Str_mistakes), 0)

\* the loop of the fallback path from line j on
\* (chatgpt-webui-client.ts:667-719): extractedAfterPrompt when it has an
\* entry, else extractedBeforePrompt
RECURSIVE FallbackCollect(_, _, _, _, _, _, _)
FallbackCollect(lines, j, promptNormalized, insideUserBlock, seenPromptText, before, after) ==
    IF j > Len(lines) THEN (IF after # <<>> THEN after ELSE before)
    ELSE LET line == lines[j]
             inside == IF IsYouSaid(line) THEN TRUE
                       ELSE IF line.role = "heading" THEN FALSE
                       ELSE insideUserBlock
             normalized == Trim(Unquote(Trim(line.value)))
             isText == /\ ~inside
                       /\ line.role \in InlineRoles \cup {"paragraph"}
                       /\ normalized # <<>>
             isPrompt == isText /\ looksLikePromptText(normalized, promptNormalized)
             kept == isText /\ ~isPrompt /\ ~IsNoise(normalized)
         IN FallbackCollect(lines, j + 1, promptNormalized, inside,
                            seenPromptText \/ isPrompt,
                            IF kept /\ ~seenPromptText THEN Append(before, normalized)
                            ELSE before,
                            IF kept /\ seenPromptText THEN Append(after, normalized)
                            ELSE after)

\* extractLikelyAssistantTextFromSnapshot (chatgpt-webui-client.ts:476-738)
extractLikelyAssistantTextFromSnapshot(lines, prompt) ==
    IF ChunkHeadings(lines) # {}
    THEN TurnText(lines, CHOOSE i \in ChunkHeadings(lines) :
                            \A k \in ChunkHeadings(lines) : k <= i)
    ELSE LET preferred == FallbackCollect(lines, 1, Trim(prompt), FALSE, FALSE, <<>>, <<>>)
         IN IF preferred = <<>> THEN <<>> ELSE preferred[Len(preferred)]

(***************************************************************************)
(* The snapshots and prompts the extractor is run on: up to MaxTurns       *)
(* pieces of a chat page, each a user turn, an assistant turn or text that *)
(* no heading introduces.                                                  *)
(***************************************************************************)
MaxTurns == 3
Str_prompt_spaced == <<"a", " ", " ", "b">>
Str_prompt_echo == <<"a", " ", "b">>
Str_prompt_quoted == <<"\"", "a", " ", "b", "\"">>
Str_long_prompt == <<"t", "e", "l", "l", " ", "m", "e", " ", "a", " ", "s", "t", "o", "r", "y", " ", "n", "o", "w", "!">>
Str_long_echo == <<"t", "e", "l", "l", " ", "m", "e", " ", "a", " ", "s", "t", "o", "r", "y">>
Str_old_answer == <<"o", "l", "d">>
Str_new_answer == <<"n", "e", "w">>
Str_new_tail == <<" ", "!">>
Str_section == <<"P", "a", "r", "t">>
ExtractPrompts == {Str_prompt_spaced, Str_long_prompt}
PromptEchoes == {Str_prompt_echo, Str_long_echo}

YouSaid == Line("heading", Str_you_said)
ChatGptSaid == Line("heading", Str_chatgpt_said)
UserTurns == {<<YouSaid, Line("paragraph", echo)>> : echo \in PromptEchoes}
TurnContents ==
    {<<>>,
     <<Line("paragraph", Str_old_answer)>>,
     <<Line("paragraph", Str_new_answer)>>,
     <<Line("paragraph", Str_prompt_echo)>>,
     <<Line("button", Str_sources), Line("paragraph", Str_ask_anything),
       Line("text", Str_new_answer), Line("strong", Str_new_tail)>>,
     <<Line("heading", Str_section), Line("paragraph", Str_old_answer)>>}
ClosedContents == {<<Line("paragraph", Str_old_answer)>>, <<Line("paragraph", Str_new_answer)>>}
AssistantTurns ==
    {<<ChatGptSaid>> \o content : content \in TurnContents}
        \cup {<<ChatGptSaid>> \o content \o <<Line("button", Str_copy)>> :
                 content \in ClosedContents}
LooseText ==
    {<<Line("paragraph", value)>> :
        value \in {Str_prompt_quoted, Str_long_echo, Str_old_answer, Str_mistakes}}
SnapshotPieces == UserTurns \cup AssistantTurns \cup LooseText

RECURSIVE Concat(_)
Concat(pieces) == IF pieces = <<>> THEN <<>> ELSE pieces[1] \o Concat(Tail(pieces))
ExtractSnapshots ==
    {Concat(pieces) : pieces \in UNION {[1..n -> SnapshotPieces] : n \in 0..MaxTurns}}

ExtractInit ==
    /\ SchedInit
    /\ NoPrompt
    /\ NoAsk
    /\ NoPoll
    /\ NoTabs
    /\ chatPage = PlainPage
    /\ helper = IdleHelper
    /\ refUse = NoRefs
    /\ extraction \in [pc : {"idle"}, lines : ExtractSnapshots, prompt : ExtractPrompts,
                       text : {<<>>}]

\* #camofoxPollAssistantText calls the extractor on the snapshot of the
\* tick (chatgpt-webui-client.ts:2425)
ExtractCall ==
    /\ extraction.pc = "idle"
    /\ extraction' = [extraction EXCEPT !.pc = "returned",
                        !.text = extractLikelyAssistantTextFromSnapshot(extraction.lines,
                                                                         extraction.prompt)]
    /\ UNCHANGED <<schedVars, promptVars, askVars, pollVars, tabVars, chatPage, helper,
                   refUse>>

ExtractNext ==
    \/ ExtractCall

SpecExtract == ExtractInit /\ [][ExtractNext]_vars

(***************************************************************************)
(* The completion poller, #camofoxPollAssistantText                        *)
(* (chatgpt-webui-client.ts:2387-2473).  Times are milliseconds.           *)
(***************************************************************************)
\* minimumSettleMs (chatgpt-webui-client.ts:2400)
MinimumSettleMs == 6000
\* the sleep that ends a tick (chatgpt-webui-client.ts:2461)
PollSleepMs == 1500
\* the idle-tick count that stands in for a ready input
\* (chatgpt-webui-client.ts:2447)
SettleIdleTicks == 3
\* the shortest and the longest poll budget the model gives a call: the
\* first ends before a candidate can settle, the second after
MinPollMs == 3000
MaxPollMs == 9000
\* the budgets a call is given
PollTimeouts == {MinPollMs, MaxPollMs}
\* how long the requests of one tick take (#camofoxTryWait, #camofoxSnapshot,
\* and the click and wait of #camofoxClickContinueGeneratingIfPresent)
RequestMs == {500, 1500}

\* the phrases snapshotFatalUiError looks for, and what it returns for each
\* (chatgpt-webui-client.ts:847-865)
Phrase_wrong == "Something went wrong"
Phrase_unable == "Unable to load conversation"
Phrase_logged_out == "You have been logged out"
Phrase_expired == "Session expired"

\* a page snapshot, by what the poller reads off it: the Stop button, the
\* Continue generating button, the fatal phrases, the log-in buttons, the
\* text extractLikelyAssistantTextFromSnapshot finds ("" when none), the
\* conversation id in the page url ("" when none), the prompt input
Snapshots ==
    [stop : BOOLEAN, continueGenerating : BOOLEAN,
     phrases : {{}, {Phrase_wrong}, {Phrase_unable}, {Phrase_logged_out}, {Phrase_expired},
                {Phrase_unable, Phrase_expired}},
     logIn : BOOLEAN, assistantText : {"", "T", "U"}, conversationId : {"", "c1"},
     readyInput : BOOLEAN]

\* snapshotIndicatesGenerationInProgress (chatgpt-webui-client.ts:819-821)
snapshotIndicatesGenerationInProgress(snap) == snap.stop
\* snapshotIndicatesReadyForNextPrompt (chatgpt-webui-client.ts:839-845)
snapshotIndicatesReadyForNextPrompt(snap) == snap.readyInput
\* snapshotIndicatesLoginRequired (chatgpt-webui-client.ts:867-869)
snapshotIndicatesLoginRequired(snap) == snap.logIn
\* snapshotFatalUiError (chatgpt-webui-client.ts:847-865); "null" is null
snapshotFatalUiError(snap) ==
    IF Phrase_wrong \in snap.phrases THEN "something_went_wrong"
    ELSE IF Phrase_unable \in snap.phrases THEN "unable_to_load_conversation"
    ELSE IF Phrase_logged_out \in snap.phrases THEN "session_logged_out"
    ELSE IF Phrase_expired \in snap.phrases THEN "session_expired"
    ELSE "null"

\* `camofox_ui_error_${fatalUiError}` (chatgpt-webui-client.ts:2418)
UiError(kind) ==
    CASE kind = "something_went_wrong" -> "camofox_ui_error_something_went_wrong"
      [] kind = "unable_to_load_conversation" -> "camofox_ui_error_unable_to_load_conversation"
      [] kind = "session_logged_out" -> "camofox_ui_error_session_logged_out"
      [] kind = "session_expired" -> "camofox_ui_error_session_expired"

\* the page of the end-to-end scenario: the Stop button on the first
\* snapshot, then an assistant turn "T" with the prompt input ready
StubSurface == [script |-> "stub", snapshots |-> 0]
\* a page that never asks to log in, shows no fatal phrase but the first,
\* has one assistant text to show and no conversation id in its url;
\* otherwise any snapshot can follow any
PlainSurface == [script |-> "plain", snapshots |-> 0]
\* the lines of the page of a resumed conversation: the earlier user and
\* assistant turns, the turn of the prompt just submitted, and the new
\* assistant turn, which is absent, empty or filled
ResumedLines(turn) ==
    <<YouSaid, Line("paragraph", Str_long_echo),
      ChatGptSaid, Line("paragraph", Str_old_answer), Line("button", Str_copy),
      YouSaid, Line("paragraph", Str_prompt_echo)>>
    \o (CASE turn = "absent" -> <<>>
           [] turn = "empty" -> <<ChatGptSaid>>
           [] turn = "filled" -> <<ChatGptSaid, Line("paragraph", Str_new_answer)>>)
\* the texts of the snapshots by the names of Snapshots: "T" is the answer
\* to the prompt, "U" the text of the earlier assistant turn
TextName(text) ==
    CASE text = <<>> -> ""
      [] text = Str_new_answer -> "T"
      [] text = Str_old_answer -> "U"
\* the page of a conversation resumed with input.conversationId: the tab is
\* navigated to #conversationUrl(input.conversationId), so the url carries
\* the conversation id from the first snapshot on
\* (chatgpt-webui-client.ts:2537-2544, 2570)
ResumedSurface == [script |-> "resumed", snapshots |-> 0, turn |-> "absent"]
\* the snapshots a page can answer the next snapshot request with
SurfaceSnapshots(page) ==
    IF page.script = "any" THEN Snapshots
    ELSE IF page.script = "resumed"
    THEN LET shown == TextName(extractLikelyAssistantTextFromSnapshot(
                                  ResumedLines(page.turn), Str_prompt_spaced))
         IN [stop : BOOLEAN, continueGenerating : BOOLEAN, phrases : {{}}, logIn : {FALSE},
             assistantText : {shown}, conversationId : {"c1"}, readyInput : BOOLEAN]
    ELSE IF page.script = "plain"
    THEN {snap \in Snapshots :
            /\ ~snap.logIn /\ snap.phrases \in {{}, {Phrase_wrong}}
            /\ snap.assistantText \in {"", "T"} /\ snap.conversationId = ""}
    ELSE {snap \in Snapshots :
            /\ ~snap.continueGenerating /\ snap.phrases = {} /\ ~snap.logIn
            /\ IF page.snapshots = 0
               THEN snap.stop /\ snap.assistantText = "" /\ ~snap.readyInput
               ELSE ~snap.stop /\ snap.assistantText = "T" /\ snap.readyInput}
\* the page after it has answered a snapshot request
SurfaceAfter(page) ==
    IF page.script = "stub" THEN [page EXCEPT !.snapshots = 1] ELSE page

\* the call and its locals before the loop (chatgpt-webui-client.ts:2393-2400)
PollBegin(timeoutMs, allowEmptyResult, t) ==
    [IdlePoller EXCEPT !.pc = "polling", !.startedAt = t, !.timeoutMs = timeoutMs,
                       !.allowEmptyResult = allowEmptyResult]

PollReturn(p, text) ==
    [p EXCEPT !.pc = "returned", !.text = text, !.conversationId = p.lastConversationId]
PollThrow(p, e) == [p EXCEPT !.pc = "threw", !.error = e]

\* mutant: the extracted text is trusted on every tick
canTrustCandidate_always(seenGenerationIndicator, lastConversationId) == TRUE

\* mutant: only a resolved conversation id makes the extracted text trusted
canTrustCandidate_conversationOnly(seenGenerationIndicator, lastConversationId) ==
    lastConversationId # ""

\* canTrustCandidate (chatgpt-webui-client.ts:2431)
canTrustCandidate(seenGenerationIndicator, lastConversationId) ==
    seenGenerationIndicator \/ lastConversationId # ""

\* mutant: a fatal page throws whether or not a candidate has been captured
FatalUiErrorThrows_always(p, snap) == snapshotFatalUiError(snap) # "null"

\* the test that throws on a fatal page (chatgpt-webui-client.ts:2417)
FatalUiErrorThrows(p, snap) == snapshotFatalUiError(snap) # "null" /\ p.lastCandidate = ""
\* the test that throws on a log-in page (chatgpt-webui-client.ts:2421)
LoginRequiredThrows(p, snap) == snapshotIndicatesLoginRequired(snap) /\ p.lastCandidate = ""

\* the last disjunct of both return tests (chatgpt-webui-client.ts:2447, 2456)
ReadyOrIdle(p, snap) ==
    snapshotIndicatesReadyForNextPrompt(snap) \/ p.idleTicks >= SettleIdleTicks

\* mutant: the settled return does not wait for the minimum settle time
SettledTest_atOnce(p, snap, t) ==
    /\ p.lastCandidate # ""
    /\ ~snapshotIndicatesGenerationInProgress(snap)
    /\ ReadyOrIdle(p, snap)

\* the test of the settled return (chatgpt-webui-client.ts:2443-2448), on
\* the locals as the tick has updated them, at clock reading t
SettledTest(p, snap, t) ==
    /\ p.lastCandidate # ""
    /\ ~snapshotIndicatesGenerationInProgress(snap)
    /\ t - p.lastCandidateAt >= MinimumSettleMs
    /\ ReadyOrIdle(p, snap)

\* the locals after the candidate and idle-tick update of a tick
\* (chatgpt-webui-client.ts:2425-2441)
TickUpdate(p, snap, t) ==
    LET stillGenerating == snapshotIndicatesGenerationInProgress(snap)
        conversationId == IF snap.conversationId # "" THEN snap.conversationId
                          ELSE p.lastConversationId
        adopt == /\ canTrustCandidate(p.seenGenerationIndicator, conversationId)
                 /\ snap.assistantText # ""
                 /\ snap.assistantText # p.lastCandidate
    IN [p EXCEPT !.lastConversationId = conversationId,
                 !.lastCandidate = IF adopt THEN snap.assistantText ELSE @,
                 !.lastCandidateAt = IF adopt THEN t ELSE @,
                 !.idleTicks = IF adopt THEN 0 ELSE IF ~stillGenerating THEN @ + 1 ELSE 0]

\* one pass of the loop body from the snapshot in hand, read at clock
\* reading t, up to the sleep (chatgpt-webui-client.ts:2405-2459): the
\* poller with pc "polling" when the loop goes on
TickBody(p, snap, t) ==
    LET seen == [p EXCEPT !.seenGenerationIndicator =
                              @ \/ snapshotIndicatesGenerationInProgress(snap)]
        updated == TickUpdate(seen, snap, t)
        \* the text and the conversation id of the snapshot are in the locals
        ended(outcome) ==
            [outcome EXCEPT !.snapshot = [snap EXCEPT !.assistantText = "",
                                                       !.conversationId = ""]]
    IN IF snap.continueGenerating THEN [seen EXCEPT !.idleTicks = 0]
       ELSE IF FatalUiErrorThrows(seen, snap)
       THEN ended(PollThrow(seen, UiError(snapshotFatalUiError(snap))))
       ELSE IF LoginRequiredThrows(seen, snap)
       THEN ended(PollThrow(seen, Err_login_required))
       ELSE IF SettledTest(updated, snap, t)
       THEN ended(PollReturn(updated, updated.lastCandidate))
       ELSE IF /\ updated.allowEmptyResult
               /\ canTrustCandidate(updated.seenGenerationIndicator,
                                    updated.lastConversationId)
               /\ ~snapshotIndicatesGenerationInProgress(snap)
               /\ ReadyOrIdle(updated, snap)
       THEN ended(PollReturn(updated, ""))
       ELSE updated

\* mutant: the tick that clicks Continue generating sleeps like any other
TickEnd_sleepsAlways(p, snap, t) ==
    IF TickBody(p, snap, t).pc = "polling" THEN t + PollSleepMs ELSE t

\* the clock when the pass of the loop body that began with the snapshot
\* read at t is over: the sleep is reached only when the body neither ends
\* the call nor takes `continue` (chatgpt-webui-client.ts:2411-2414, 2461)
TickEnd(p, snap, t) ==
    IF TickBody(p, snap, t).pc = "polling" /\ ~snap.continueGenerating
    THEN t + PollSleepMs ELSE t

\* mutant: with empty results acceptable the loop's end returns the empty
\* text whether or not a conversation id was resolved
AfterDeadline_emptyWithoutId(p) ==
    IF p.lastCandidate # "" THEN PollReturn(p, p.lastCandidate)
    ELSE IF p.allowEmptyResult THEN PollReturn(p, "")
    ELSE PollThrow(p, Err_timeout)

\* mutant: the loop's end throws the timeout error whatever was captured
AfterDeadline_alwaysThrows(p) == PollThrow(p, Err_timeout)

\* what the loop's end leaves (chatgpt-webui-client.ts:2464-2472)
AfterDeadline(p) ==
    IF p.lastCandidate # "" THEN PollReturn(p, p.lastCandidate)
    ELSE IF p.allowEmptyResult /\ p.lastConversationId # "" THEN PollReturn(p, "")
    ELSE PollThrow(p, Err_timeout)

\* the loop test (chatgpt-webui-client.ts:2402)
BeforeDeadline(p, t) == t - p.startedAt < p.timeoutMs

\* a call of the poller: its one caller passes no options, so
\* allowEmptyResult is false (chatgpt-webui-client.ts:2393, 2616)
PollCall ==
    /\ poller.pc = "idle"
    /\ \E timeoutMs \in PollTimeouts : poller' = PollBegin(timeoutMs, FALSE, now)
    /\ UNCHANGED <<schedVars, promptVars, askVars, surface, tabVars, pageVars>>

\* one tick: the wait and the snapshot, the loop body, and the sleep when
\* the loop goes on without `continue` (chatgpt-webui-client.ts:2402-2462)
PollTick ==
    /\ poller.pc = "polling"
    /\ BeforeDeadline(poller, now)
    /\ \E snap \in SurfaceSnapshots(surface), d \in RequestMs :
         /\ poller' = TickBody(poller, snap, now + d)
         /\ now' = TickEnd(poller, snap, now + d)
    /\ surface' = SurfaceAfter(surface)
    /\ UNCHANGED <<nextId, jobs, askJobs, pc, awaiting, runs, waiter, promptVars, askVars,
                   tabVars, pageVars>>

\* the snapshot request of a tick fails (chatgpt-webui-client.ts:2404)
PollSnapshotFails ==
    /\ poller.pc = "polling"
    /\ BeforeDeadline(poller, now)
    /\ \E e \in {Err_crash, Err_500}, d \in RequestMs :
         /\ poller' = PollThrow(poller, e)
         /\ now' = now + d
    /\ UNCHANGED <<nextId, jobs, askJobs, pc, awaiting, runs, waiter, promptVars, askVars,
                   surface, tabVars, pageVars>>

\* the click on the Continue generating button of a tick's snapshot fails:
\* #camofoxClickContinueGeneratingIfPresent does not catch it
\* (chatgpt-webui-client.ts:2382, 2411)
PollClickFails ==
    /\ poller.pc = "polling"
    /\ BeforeDeadline(poller, now)
    /\ \E stillGenerating \in {snapshotIndicatesGenerationInProgress(snap) :
                                   snap \in {sn \in SurfaceSnapshots(surface) :
                                                sn.continueGenerating}},
          e \in {Err_crash, Err_500}, d \in RequestMs :
         /\ poller' = [PollThrow(poller, e) EXCEPT
                          !.seenGenerationIndicator = @ \/ stillGenerating]
         /\ now' = now + d
    /\ surface' = SurfaceAfter(surface)
    /\ UNCHANGED <<nextId, jobs, askJobs, pc, awaiting, runs, waiter, promptVars, askVars,
                   tabVars, pageVars>>

\* the loop test fails: the deadline has passed
PollDeadline ==
    /\ poller.pc = "polling"
    /\ ~BeforeDeadline(poller, now)
    /\ poller' = AfterDeadline(poller)
    /\ UNCHANGED <<schedVars, promptVars, askVars, surface, tabVars, pageVars>>

PollInit ==
    /\ SchedInit
    /\ NoTabs
    /\ NoHelper
    /\ NoPrompt
    /\ NoAsk
    /\ poller = IdlePoller
    /\ surface \in {AnySurface, StubSurface}

PollNext ==
    \/ PollCall
    \/ PollTick
    \/ PollSnapshotFails
    \/ PollClickFails
    \/ PollDeadline

SpecPoll == PollInit /\ [][PollNext]_vars

\* the page of the resumed conversation moves on while the poller polls: the
\* new assistant turn appears, then fills
PageAdvances ==
    /\ surface.script = "resumed"
    /\ poller.pc = "polling"
    /\ surface.turn # "filled"
    /\ surface' = [surface EXCEPT !.turn = IF @ = "absent" THEN "empty" ELSE "filled"]
    /\ UNCHANGED <<schedVars, promptVars, askVars, poller, tabVars, pageVars>>

ResumeInit ==
    /\ SchedInit
    /\ NoTabs
    /\ NoHelper
    /\ NoPrompt
    /\ NoAsk
    /\ poller = IdlePoller
    /\ surface = ResumedSurface

ResumeNext ==
    \/ PollCall
    \/ PollTick
    \/ PollSnapshotFails
    \/ PollClickFails
    \/ PollDeadline
    \/ PageAdvances

SpecResume == ResumeInit /\ [][ResumeNext]_vars

\* a call of the poller with any of the options its signature admits
\* (chatgpt-webui-client.ts:2387-2393)
PollCallWithOptions ==
    /\ poller.pc = "idle"
    /\ \E timeoutMs \in PollTimeouts, allowEmptyResult \in BOOLEAN :
         poller' = PollBegin(timeoutMs, allowEmptyResult, now)
    /\ UNCHANGED <<schedVars, promptVars, askVars, surface, tabVars, pageVars>>

PollOptionsNext ==
    \/ PollCallWithOptions
    \/ PollTick
    \/ PollSnapshotFails
    \/ PollClickFails
    \/ PollDeadline

\* the poller as a function of its parameters, whoever calls it
SpecPollOptions == PollInit /\ [][PollOptionsNext]_vars

(***************************************************************************)
(* One job from createAskJob to its terminal state: runAskJob awaiting     *)
(* ask, ask running its attempts, the attempt's poll step run by the       *)
(* poller (index.ts:172-192, chatgpt-webui-client.ts:2616-2618).           *)
(***************************************************************************)
\* a plain text request with an explicit wait budget
RunRequest(waitMs) ==
    AskToolInput(Str_hi, Str_empty, "instant", "undefined", FALSE, "undefined", FALSE, waitMs)
\* the request made of each page: the short budget where anything can
\* happen, the long one where the page is scripted
RunRequestOf(page) == RunRequest(IF page.script = "stub" THEN MaxPollMs ELSE MinPollMs)

\* effectiveTimeout of #askViaCamofox for a request that gives
\* waitTimeoutMs (chatgpt-webui-client.ts:2549-2552)
EffectiveTimeout(input) == input.waitTimeoutMs

RunInit ==
    /\ SchedInit
    /\ NoTabs
    /\ NoHelper
    /\ NoPrompt
    /\ surface \in {PlainSurface, StubSurface}
    /\ askInput = toAskClientInput(RunRequestOf(surface))
    /\ askCall = IdleAsk
    /\ remote = NoRemote
    /\ poller = IdlePoller

\* the scripted page belongs to a backend whose requests all succeed
NoRequestFails ==
    surface.script = "stub" =>
        /\ askCall'.pending \in {"none", "return"}
        /\ askCall'.degraded = {}
        /\ askCall'.createAttempt = askCall.createAttempt

\* the attempt is at its poll step (chatgpt-webui-client.ts:2616)
AtPollStep ==
    /\ askCall.pc = "steps"
    /\ Steps(askInput, askCall.model)[askCall.step] = "pollAssistantText"

\* chatgpt_webui_ask_async_start for the one request (index.ts:494-495)
RunSubmit ==
    /\ nextId = 1
    /\ CreateAskJob(RunRequestOf(surface))
    /\ UNCHANGED <<promptVars, askVars, pollVars, tabVars, pageVars>>

\* `createClient()` throws for want of a session token (index.ts:362-363)
RunClientFails ==
    /\ surface.script # "stub"
    /\ askCall.pc = "ready"
    /\ RunAskJobSettle(1, <<FALSE, Err_other>>)
    /\ UNCHANGED <<promptVars, askVars, pollVars, tabVars, pageVars>>

\* runAskJob calls ask (index.ts:181)
RunAskCall ==
    /\ 1 \in awaiting
    /\ AskCall

\* the attempt calls the poller (chatgpt-webui-client.ts:2616)
RunPollCall ==
    /\ AtPollStep
    /\ poller.pc = "idle"
    /\ poller' = PollBegin(EffectiveTimeout(askInput), FALSE, now)
    /\ UNCHANGED <<schedVars, promptVars, askVars, surface, tabVars, pageVars>>

\* the poller's result or error reaches the attempt
\* (chatgpt-webui-client.ts:2616-2618, 2852-2861)
RunPollEnd ==
    /\ AtPollStep
    /\ poller.pc \in {"returned", "threw"}
    /\ askCall' =
         IF poller.pc = "returned"
         THEN [ToFinally(askCall, "return") EXCEPT !.text = poller.text,
                                                    !.conversationId = poller.conversationId]
         ELSE ToFinally(askCall, poller.error)
    /\ remote' = Issue(remote, "pollAssistantText")
    /\ poller' = IdlePoller
    /\ UNCHANGED <<askInput, schedVars, promptVars, surface, tabVars, pageVars>>

\* the await of runAskJob settles with what ask returned or threw
\* (index.ts:181-191)
RunSettle ==
    /\ askCall.pc \in {"returned", "threw"}
    /\ RunAskJobSettle(1, IF askCall.pc = "returned" THEN <<TRUE, askCall.text>>
                          ELSE <<FALSE, askCall.error>>)
    /\ UNCHANGED <<promptVars, askVars, pollVars, tabVars, pageVars>>

\* the steps the program takes by itself once the job is submitted
RunProgress ==
    \/ CreateAskJobRun /\ UNCHANGED <<promptVars, askVars, pollVars, tabVars, pageVars>>
    \/ RunClientFails
    \/ RunAskCall
    \/ AskViaCamofoxEnter
    \/ AskCreateTab /\ NoRequestFails
    \/ AskStep /\ ~AtPollStep /\ NoRequestFails
    \/ RunPollCall
    \/ PollTick /\ poller.startedAt # 0
    \/ PollSnapshotFails /\ surface.script # "stub"
    \/ PollClickFails /\ surface.script # "stub"
    \/ PollDeadline
    \/ RunPollEnd
    \/ AskFinally
    \/ RunSettle

RunNext ==
    \/ RunSubmit
    \/ (\E c \in Callers : Status(c, 1)) /\ UNCHANGED <<promptVars, askVars, pollVars, tabVars, pageVars>>
    \/ RunProgress

\* every continuation runs once the request it awaits has returned
SpecRun == RunInit /\ [][RunNext]_vars /\ WF_vars(RunProgress)

(***************************************************************************)
(* Jobs running at the same time, each through its own client: the tab an  *)
(* attempt creates, the requests it sends and the session context they     *)
(* reach (index.ts:358-369, chatgpt-webui-client.ts:1138-1143, 1514-1562,  *)
(* 2566-2570, 2861-2865).                                                  *)
(***************************************************************************)
\* DEFAULT_CAMOFOX_USER_ID, DEFAULT_CAMOFOX_SESSION_KEY
\* (chatgpt-webui-client.ts:72-73): what every client of the process takes
\* for its user id and session key (chatgpt-webui-client.ts:1138-1143)
CamofoxUserId == "chatgpt-webui-mcp"
CamofoxSessionKey == "chatgpt-webui"
\* the requests an attempt sends against its tab
\* (chatgpt-webui-client.ts:2570-2618)
TabCommands == {"navigate", "snapshot", "click", "type"}
\* the positions at which an attempt holds a tab
HoldsTab == {"tab", "cookie", "commanding"}

\* withClient makes the job's client (index.ts:362-363)
ClientCreate(j) ==
    /\ clients[j].pc = "idle"
    /\ clients' = [clients EXCEPT ![j] = [@ EXCEPT !.pc = "ready", !.userId = CamofoxUserId,
                                                   !.sessionKey = CamofoxSessionKey]]
    /\ UNCHANGED <<backend, schedVars, promptVars, askVars, pollVars, pageVars>>

\* POST /tabs with the client's userId and sessionKey: the backend opens a
\* new tab in the session context of that user id, making the context when
\* the user id has none, and answers with the tab's id
\* (chatgpt-webui-client.ts:1514-1552, 2567)
ClientCreateTab(j) ==
    /\ clients[j].pc = "ready"
    /\ clients[j].attempts < AskMaxAttempts
    /\ LET tab == Len(backend.created) + 1
           context == IF \E c \in backend.contexts : c[1] = clients[j].userId THEN {}
                      ELSE {<<clients[j].userId, j>>}
       IN /\ backend' = [backend EXCEPT !.tabs = @ \cup {tab}, !.created = Append(@, j),
                                         !.contexts = @ \cup context]
          /\ clients' = [clients EXCEPT ![j] = [@ EXCEPT !.pc = "tab", !.tabId = tab,
                                                         !.attempts = @ + 1]]
    /\ UNCHANGED <<schedVars, promptVars, askVars, pollVars, pageVars>>

\* POST /sessions/<userId>/cookies (chatgpt-webui-client.ts:1564-1637, 2569)
ClientImportCookie(j) ==
    /\ clients[j].pc = "tab"
    /\ clients' = [clients EXCEPT ![j] = [@ EXCEPT !.pc = "cookie", !.session = clients[j].userId,
                                                   !.command = "cookies"]]
    /\ UNCHANGED <<backend, schedVars, promptVars, askVars, pollVars, pageVars>>

\* mutant: a request goes against any tab the backend has open
ClientCommand_anyOpenTab(j, kind) ==
    /\ clients[j].pc \in {"cookie", "commanding"}
    /\ \E tab \in backend.tabs :
         clients' = [clients EXCEPT ![j] = [@ EXCEPT !.pc = "commanding", !.target = tab,
                                                        !.command = kind]]
    /\ UNCHANGED <<backend, schedVars, promptVars, askVars, pollVars, pageVars>>

\* a request against the tab the attempt holds in its local tabId
\* (chatgpt-webui-client.ts:2570-2618)
ClientCommand(j, kind) ==
    /\ clients[j].pc \in {"cookie", "commanding"}
    /\ clients' = [clients EXCEPT ![j] = [@ EXCEPT !.pc = "commanding", !.target = clients[j].tabId,
                                                   !.command = kind]]
    /\ UNCHANGED <<backend, schedVars, promptVars, askVars, pollVars, pageVars>>

\* the finally of the attempt deletes its tab, after a return or a throw of
\* any step; ask then makes another attempt or is over
\* (chatgpt-webui-client.ts:2861-2865, 2924-2947)
ClientDeleteTab(j) ==
    /\ clients[j].pc \in HoldsTab
    /\ backend' = [backend EXCEPT !.tabs = @ \ {clients[j].tabId}]
    /\ \E after \in {"ready", "done"} :
         clients' = [clients EXCEPT ![j] = [@ EXCEPT !.pc = after, !.target = clients[j].tabId,
                                                        !.command = "delete", !.tabId = 0]]
    /\ UNCHANGED <<schedVars, promptVars, askVars, pollVars, pageVars>>

TabInit == Init

TabNext ==
    \/ \E j \in TabJobs : ClientCreate(j)
    \/ \E j \in TabJobs : ClientCreateTab(j)
    \/ \E j \in TabJobs : ClientImportCookie(j)
    \/ \E j \in TabJobs, kind \in TabCommands : ClientCommand(j, kind)
    \/ \E j \in TabJobs : ClientDeleteTab(j)

SpecTabs == TabInit /\ [][TabNext]_vars

(***************************************************************************)
(* Helpers of the Driver on the page of its tab: #camofoxSetReasoningEffort, *)
(* #camofoxResolveWorkspace and #camofoxSnapshotTextAll                    *)
(* (chatgpt-webui-client.ts:2204-2261, 1982-2006, 1732-1750).              *)
(***************************************************************************)
Depths == {"none", "standard", "extended"}

\* the labels of the reasoning buttons the helper looks for, and the labels
\* each of its patterns matches: /Thinking, click to remove/i is not
\* anchored and matches the chip of the extended depth as well
\* (chatgpt-webui-client.ts:2210-2211, 2233, 2250, 2256)
Lbl_thinking == "Thinking"
Lbl_extended == "Extended thinking"
Lbl_removeThinking == "Thinking, click to remove"
Lbl_removeExtended == "Extended thinking, click to remove"
Re_removeExtended == {Lbl_removeExtended}
Re_removeThinking == {Lbl_removeThinking, Lbl_removeExtended}
Re_thinking == {Lbl_thinking}
Re_extendedThinking == {Lbl_extended}
Re_extended == {Lbl_extended, Lbl_removeExtended}

\* the reasoning buttons in the snapshot of a page with the given depth
\* selected, in page order: the selected depth shows as a chip that a
\* click removes, and a depth can be chosen when none is selected
EffortButtons(depth) ==
    CASE depth = "none" -> <<Lbl_thinking, Lbl_extended>>
      [] depth = "standard" -> <<Lbl_removeThinking>>
      [] depth = "extended" -> <<Lbl_removeExtended>>
\* the depth selected once the button with the label has been clicked
DepthAfterClick(depth, label) ==
    CASE label = Lbl_thinking -> "standard"
      [] label = Lbl_extended -> "extended"
      [] OTHER -> "none"

\* parseSnapshotForRef on the buttons: the first one whose label the
\* pattern matches, "null" when there is none
\* (chatgpt-webui-client.ts:2210-2211)
ButtonRef(buttons, pattern) ==
    IF \E i \in DOMAIN buttons : buttons[i] \in pattern
    THEN buttons[CHOOSE i \in DOMAIN buttons :
                   /\ buttons[i] \in pattern
                   /\ \A k \in 1..(i - 1) : buttons[k] \notin pattern]
    ELSE "null"

\* #camofoxClickRef on the page: the depth selected and the clicks made
ClickRef(st, label) ==
    [depth |-> DepthAfterClick(st.depth, label), clicks |-> Append(st.clicks, label)]
\* #camofoxFindAndClick: a snapshot, and a click when the pattern matches
FindAndClick(st, pattern) ==
    IF ButtonRef(EffortButtons(st.depth), pattern) # "null"
    THEN ClickRef(st, ButtonRef(EffortButtons(st.depth), pattern))
    ELSE st

\* mutant: the extended branch goes on when the extended chip is there
AlreadyExtended_never(selectedExtendedRef) == FALSE

\* the early return of the extended branch (chatgpt-webui-client.ts:2241)
AlreadyExtended(selectedExtendedRef) == selectedExtendedRef # "null"

\* #camofoxSetReasoningEffort on a page with the given depth selected
\* (chatgpt-webui-client.ts:2204-2261): the depth selected at its return and
\* the buttons it clicked, in order
SetReasoningEffort(depth, effort) ==
    LET st == [depth |-> depth, clicks |-> <<>>]
        buttons == EffortButtons(depth)
        selectedExtendedRef == ButtonRef(buttons, Re_removeExtended)
        selectedThinkingRef == ButtonRef(buttons, Re_removeThinking)
    IN CASE effort = "none" ->
              LET selectedRef == IF selectedExtendedRef # "null"
                                 THEN selectedExtendedRef ELSE selectedThinkingRef
              IN IF selectedRef # "null" THEN ClickRef(st, selectedRef) ELSE st
         [] effort = "standard" ->
              LET removed == IF selectedExtendedRef # "null"
                             THEN ClickRef(st, selectedExtendedRef) ELSE st
              IN IF ButtonRef(EffortButtons(removed.depth), Re_removeThinking) # "null"
                 THEN removed
                 ELSE FindAndClick(removed, Re_thinking)
         [] effort = "extended" ->
              IF AlreadyExtended(selectedExtendedRef) THEN st
              ELSE LET removed == IF selectedThinkingRef # "null"
                                  THEN ClickRef(st, selectedThinkingRef) ELSE st
                       enabled == FindAndClick(removed, Re_extendedThinking)
                   IN IF enabled # removed THEN enabled
                      ELSE FindAndClick(removed, Re_extended)
         [] OTHER -> st

\* the step of #askViaCamofox that sets the reasoning depth
\* (chatgpt-webui-client.ts:2603-2605)
SetReasoningEffortCall ==
    /\ helper.pc = "idle"
    /\ \E effort \in Depths :
         LET set == SetReasoningEffort(chatPage.depth, effort)
         IN /\ helper' = [IdleHelper EXCEPT !.fn = "setReasoningEffort",
                                            !.pc = "returned", !.arg = effort,
                                            !.before = chatPage.depth,
                                            !.clicks = set.clicks]
            /\ chatPage' = [chatPage EXCEPT !.depth = set.depth]
    /\ UNCHANGED <<schedVars, promptVars, askVars, pollVars, tabVars, extraction, refUse>>

\* the workspaces a caller names and the names of the radios of the
\* interstitial; a radio the snapshot shows without a name has the name ""
Workspaces == {"PRO", "personal"}
RadioNames == {"", "Pro", "team"}
MaxRadios == 2
RadioLists == UNION {[1..n -> RadioNames] : n \in 0..MaxRadios}
\* the letters of a name in lower case: the patterns carry the flag i
Lower(name) == IF name \in {"PRO", "Pro"} THEN "pro" ELSE name

\* the pages the interstitial may leave behind when a radio was clicked
InterstitialPages(page) ==
    {[page EXCEPT !.selectWorkspace = FALSE, !.radios = <<>>]}
        \cup {[page EXCEPT !.selectWorkspace = TRUE, !.radios = radios] :
                 radios \in RadioLists}

\* mutant: the first named radio is taken whatever the caller's workspace
RefToClick_first(radios, workspace) ==
    IF \E i \in DOMAIN radios : radios[i] # ""
    THEN CHOOSE i \in DOMAIN radios :
           radios[i] # "" /\ \A k \in 1..(i - 1) : radios[k] = ""
    ELSE 0

\* the radio #camofoxResolveWorkspace clicks, 0 when there is none: the
\* first whose whole name is the workspace, else the first with a name
\* (chatgpt-webui-client.ts:1989-1992)
RefToClick(radios, workspace) ==
    LET preferred == {i \in DOMAIN radios : Lower(radios[i]) = Lower(workspace)}
        fallback == {i \in DOMAIN radios : radios[i] # ""}
        First(refs) == CHOOSE i \in refs : \A k \in refs : i <= k
    IN IF preferred # {} THEN First(preferred)
       ELSE IF fallback # {} THEN First(fallback)
       ELSE 0

WorkspaceMaxAttempts == 3
Err_workspace_ref_not_found == "camofox_workspace_selection_ref_not_found"

\* #askViaCamofox calls #camofoxResolveWorkspace with the caller's workspace
\* (chatgpt-webui-client.ts:2576)
ResolveWorkspaceCall ==
    /\ helper.pc = "idle"
    /\ \E workspace \in Workspaces :
         helper' = [IdleHelper EXCEPT !.fn = "resolveWorkspace", !.pc = "running",
                                      !.arg = workspace]
    /\ UNCHANGED <<schedVars, promptVars, askVars, pollVars, tabVars, chatPage, extraction, refUse>>

\* one round of the loop of #camofoxResolveWorkspace
\* (chatgpt-webui-client.ts:1983-1999)
ResolveWorkspaceAttempt ==
    /\ helper.fn = "resolveWorkspace" /\ helper.pc = "running"
    /\ helper.attempt < WorkspaceMaxAttempts
    /\ IF ~chatPage.selectWorkspace
       THEN /\ helper' = [helper EXCEPT !.pc = "returned"]
            /\ UNCHANGED chatPage
       ELSE IF RefToClick(chatPage.radios, helper.arg) = 0
       THEN /\ helper' = [helper EXCEPT !.pc = "threw",
                                        !.error = Err_workspace_ref_not_found]
            /\ UNCHANGED chatPage
       ELSE /\ helper' = [helper EXCEPT
                             !.clicks = Append(@, RefToClick(chatPage.radios, helper.arg)),
                             !.attempt = @ + 1]
            /\ chatPage' \in InterstitialPages(chatPage)
    /\ UNCHANGED <<schedVars, promptVars, askVars, pollVars, tabVars, extraction, refUse>>

\* the snapshot after the last round (chatgpt-webui-client.ts:2002-2005)
ResolveWorkspaceFinal ==
    /\ helper.fn = "resolveWorkspace" /\ helper.pc = "running"
    /\ helper.attempt >= WorkspaceMaxAttempts
    /\ helper' = IF chatPage.selectWorkspace
                 THEN [helper EXCEPT !.pc = "threw", !.error = Err_workspace_not_resolved]
                 ELSE [helper EXCEPT !.pc = "returned"]
    /\ UNCHANGED <<schedVars, promptVars, askVars, pollVars, tabVars, chatPage, extraction, refUse>>

\* offsets are counted in halves, so that a backend's next offset need not
\* be a whole number; the query carries the offset rounded down
\* (chatgpt-webui-client.ts:1713-1717)
OffsetUnit == 2
MaxNextOffset == 4
QueryOffset(offset) == offset \div OffsetUnit
SnapshotMaxChunks == 8
SnapshotChunks == {<<>>, <<"a">>}
\* what the backend answers to a snapshot request: nextOffset is a finite
\* number (in halves), not a number at all ("null") or not finite
SnapshotResponses ==
    [snapshot : SnapshotChunks, hasMore : BOOLEAN, nextOffsetIs : {"finite"},
     nextOffset : 0..(MaxNextOffset * OffsetUnit)]
        \cup [snapshot : SnapshotChunks, hasMore : BOOLEAN,
              nextOffsetIs : {"null", "nonfinite"}, nextOffset : {0}]

\* chunks.join with a line feed between the chunks
RECURSIVE JoinLines(_)
JoinLines(chunks) ==
    IF chunks = <<>> THEN <<>>
    ELSE IF Len(chunks) = 1 THEN chunks[1]
    ELSE chunks[1] \o <<"\n">> \o JoinLines(Tail(chunks))

\* the loop of #camofoxSnapshotTextAll ends after this response
\* (chatgpt-webui-client.ts:1742)
LastChunk(response, offset) ==
    \/ ~response.hasMore
    \/ response.nextOffsetIs \in {"null", "nonfinite"}
    \/ response.nextOffset <= offset

SnapshotTextAllCall ==
    /\ helper.pc = "idle"
    /\ helper' = [IdleHelper EXCEPT !.fn = "snapshotTextAll", !.pc = "running"]
    /\ UNCHANGED <<schedVars, promptVars, askVars, pollVars, tabVars, chatPage, extraction, refUse>>

\* one round of the loop of #camofoxSnapshotTextAll, and its return when
\* the round was the last (chatgpt-webui-client.ts:1736-1749)
SnapshotTextAllFetch ==
    /\ helper.fn = "snapshotTextAll" /\ helper.pc = "running"
    /\ helper.attempt < SnapshotMaxChunks
    /\ \E response \in SnapshotResponses :
         LET chunks == Append(helper.chunks, response.snapshot)
             fetched == Append(helper.fetched, QueryOffset(helper.offset))
         IN helper' =
              IF LastChunk(response, helper.offset)
                 \/ helper.attempt + 1 >= SnapshotMaxChunks
              THEN [helper EXCEPT !.pc = "returned", !.chunks = chunks,
                                  !.fetched = fetched, !.text = JoinLines(chunks)]
              ELSE [helper EXCEPT !.chunks = chunks, !.fetched = fetched,
                                  !.offset = response.nextOffset,
                                  !.attempt = @ + 1]
    /\ UNCHANGED <<schedVars, promptVars, askVars, pollVars, tabVars, chatPage, extraction, refUse>>

\* a snapshot request fails and #camofoxSnapshotTextAll throws what
\* #camofoxRequest threw (chatgpt-webui-client.ts:1737)
SnapshotTextAllFails ==
    /\ helper.fn = "snapshotTextAll" /\ helper.pc = "running"
    /\ helper' = [helper EXCEPT !.pc = "threw", !.error = Err_500]
    /\ UNCHANGED <<schedVars, promptVars, askVars, pollVars, tabVars, chatPage, extraction, refUse>>

HelperPages ==
    {[depth |-> depth, selectWorkspace |-> FALSE, radios |-> <<>>] : depth \in Depths}
        \cup {[depth |-> "none", selectWorkspace |-> TRUE, radios |-> radios] :
                 radios \in RadioLists}

HelperInit ==
    /\ SchedInit
    /\ NoPrompt
    /\ NoAsk
    /\ NoPoll
    /\ NoTabs
    /\ chatPage \in HelperPages
    /\ helper = IdleHelper
    /\ extraction = NoExtraction
    /\ refUse = NoRefs

HelperNext ==
    \/ SetReasoningEffortCall
    \/ ResolveWorkspaceCall
    \/ ResolveWorkspaceAttempt
    \/ ResolveWorkspaceFinal

SpecHelpers == HelperInit /\ [][HelperNext]_vars

SnapshotNext ==
    \/ SnapshotTextAllCall
    \/ SnapshotTextAllFetch
    \/ SnapshotTextAllFails

SpecSnapshot == Init /\ [][SnapshotNext]_vars


(***************************************************************************)
(* Claims about the job table.                                             *)
(***************************************************************************)
Created == DOMAIN jobs

StateMoves == {<<"queued", "running">>, <<"running", "succeeded">>, <<"running", "failed">>}

\* C2: every job is run by exactly one worker and its state only moves
\* queued -> running -> (succeeded | failed), one move at a time and never
\* backwards; a further call of runAskJob for its id changes nothing.
C2_OneWorkerForwardOnly ==
    [][/\ \A id \in Created :
            jobs'[id].state # jobs[id].state =>
                <<jobs[id].state, jobs'[id].state>> \in StateMoves
       /\ \A id \in DOMAIN jobs' \ Created : jobs'[id].state = "queued"
       /\ \A id \in DOMAIN jobs' :
            /\ runs'[id] <= 1
            /\ jobs'[id].state # "queued" => runs'[id] = 1
            /\ id \in awaiting' <=> jobs'[id].state = "running"
       /\ \A id \in Created :
            runs[id] = 1 /\ jobs[id].state = jobs'[id].state => jobs'[id] = jobs[id]
      ]_vars

C2_Witness ==
    \E a, b \in Created :
        /\ jobs[a].state = "succeeded" /\ runs[a] = 1
        /\ jobs[b].state = "failed" /\ runs[b] = 1

\* C3: createAskJob stores exactly one new job, queued and with no startedAt,
\* finishedAt, result or error, hands it to runAskJob and returns while the
\* job is not terminal.
C3_SubmitStoresQueuedJob ==
    [][/\ pc = "idle" /\ pc' = "created" =>
            /\ askJobs' \ askJobs = {nextId}
            /\ DOMAIN jobs' = Created \cup {nextId}
            /\ \A id \in Created : jobs'[id] = jobs[id]
            /\ jobs'[nextId].id = nextId
            /\ jobs'[nextId].state = "queued"
            /\ jobs'[nextId].startedAt = Null /\ jobs'[nextId].finishedAt = Null
            /\ jobs'[nextId].result = NullStr /\ jobs'[nextId].error = NullStr
       /\ pc = "created" /\ pc' = "idle" =>
            /\ nextId - 1 \in awaiting'
            /\ runs'[nextId - 1] = 1
            /\ jobs'[nextId - 1].state \notin Terminal
            /\ askJobs' = askJobs
      ]_vars

C3_Witness ==
    /\ pc = "created"
    /\ jobs[nextId - 1].state = "queued"
    /\ \E id \in askJobs : jobs[id].state \in Terminal

Expired(job, t) == job.finishedAt # Null /\ t - job.finishedAt > ASK_ASYNC_JOB_TTL_MS

\* every job ever submitted is terminal and none is past the TTL
AllTerminalWithinTtl ==
    /\ pc = "idle"
    /\ \A id \in Created : jobs[id].state \in Terminal /\ ~Expired(jobs[id], now)

\* C6: once cap + k jobs (k >= 0) have been submitted and all are terminal,
\* none past the TTL, exactly cap of them are resolvable by getAskJob, and no
\* evicted job finished later than a retained one.
C6_CapKeepsMostRecent ==
    Len(jobs) >= ASK_ASYNC_JOB_MAX /\ AllTerminalWithinTtl =>
        /\ Cardinality({id \in Created : getAskJob(askJobs, id)}) = ASK_ASYNC_JOB_MAX
        /\ \A kept \in askJobs, gone \in Created \ askJobs :
              jobs[gone].finishedAt <= jobs[kept].finishedAt

C6_Witness ==
    /\ Len(jobs) > ASK_ASYNC_JOB_MAX
    /\ AllTerminalWithinTtl
    /\ \E kept \in askJobs, gone \in Created \ askJobs :
          jobs[gone].finishedAt < jobs[kept].finishedAt

\* the jobs a step takes out of the table although they are not past the
\* TTL: those the cap pass of its sweep evicts
CapEvicted == {gone \in askJobs \ askJobs' : ~Expired(jobs'[gone], now')}
\* the jobs that were in the table and stay in it
Survivors == askJobs \cap askJobs'
\* the cap pass leaves the table at or under the cap, or with no terminal job
CapReached ==
    \/ Cardinality(Survivors) <= ASK_ASYNC_JOB_MAX
    \/ \A kept \in Survivors : jobs'[kept].state \notin Terminal

\* C15: when the table still exceeds the cap after TTL eviction, the sweep
\* evicts terminal jobs in creation-time order, oldest createdAt first,
\* until the table is at or under the cap (or has no terminal job left).
C15_CapEvictsByCreationTime ==
    [][CapEvicted # {} =>
          /\ \A gone \in CapEvicted :
                /\ jobs'[gone].state \in Terminal
                /\ \A kept \in Survivors :
                      jobs'[kept].state \in Terminal =>
                         jobs'[gone].createdAt <= jobs'[kept].createdAt
          /\ CapReached]_vars

\* C15, amended: the order is completion-time order, oldest finishedAt
\* first.
C15_CapEvictsByFinishTime ==
    [][CapEvicted # {} =>
          /\ \A gone \in CapEvicted :
                /\ jobs'[gone].state \in Terminal
                /\ \A kept \in Survivors :
                      jobs'[kept].state \in Terminal =>
                         jobs'[gone].finishedAt <= jobs'[kept].finishedAt
          /\ CapReached]_vars

\* the cap pass has evicted a job that was created after, and finished
\* before, a terminal job it kept
C15_Witness ==
    \E gone \in Created \ askJobs, kept \in askJobs :
        /\ ~Expired(jobs[gone], now)
        /\ jobs[kept].state \in Terminal
        /\ jobs[gone].finishedAt < jobs[kept].finishedAt
        /\ jobs[gone].createdAt > jobs[kept].createdAt

\* C16: no sweep, by its TTL pass or by its cap pass, removes a queued or
\* running job from the table, however many jobs are live: a job a step
\* takes out of the table is terminal when the step's sweep runs.
C16_LiveJobsNeverEvicted ==
    [][\A id \in askJobs :
          jobs'[id].state \in {"queued", "running"} => id \in askJobs']_vars

\* a sweep has evicted a job while the table held a full cap of queued or
\* running jobs, which are all still in it
C16_Witness ==
    /\ Created \ askJobs # {}
    /\ Cardinality({id \in askJobs : jobs[id].state \in {"queued", "running"}})
          >= ASK_ASYNC_JOB_MAX
    /\ \A id \in Created : jobs[id].state \in {"queued", "running"} => id \in askJobs

\* C10: the result is written only by the move to succeeded, and a terminal
\* job's state, result, error and finishedAt never change again.
C10_TerminalJobsImmutable ==
    [][\A id \in Created :
          /\ jobs[id].state \in Terminal =>
                /\ jobs'[id].state = jobs[id].state
                /\ jobs'[id].result = jobs[id].result
                /\ jobs'[id].error = jobs[id].error
                /\ jobs'[id].finishedAt = jobs[id].finishedAt
          /\ jobs'[id].result # jobs[id].result =>
                jobs[id].state = "running" /\ jobs'[id].state = "succeeded"
          /\ jobs'[id].state = "succeeded" => jobs'[id].result # NullStr
      ]_vars

C10_Witness ==
    \E a, b \in Created :
        /\ jobs[a].state = "succeeded" /\ jobs[a].result # NullStr
        /\ jobs[a].finishedAt < now
        /\ jobs[b].state \in Terminal /\ jobs[b].finishedAt > jobs[a].finishedAt
        /\ a \notin askJobs

(***************************************************************************)
(* Claims about the status and result tools.                               *)
(***************************************************************************)
\* caller c has just been answered by the status tool
StatusAnswered(c) == waiter'[c] # waiter[c] /\ waiter'[c].op = "status"

\* C4: getAskJob on an id that was never submitted or has been evicted fails
\* with ask_job_not_found and leaves the table unchanged; on an id in the
\* table it returns that job.
C4_StatusFindsExactlyTableJobs ==
    [][\A c \in Callers :
          StatusAnswered(c) =>
              /\ askJobs' = askJobs /\ jobs' = jobs
              /\ waiter'[c].pc = "returned"
              /\ waiter'[c].job \notin askJobs => ~waiter'[c].found
              /\ waiter'[c].job \in askJobs =>
                    /\ waiter'[c].found
                    /\ waiter'[c].state = jobs[waiter'[c].job].state
      ]_vars

\* a status call was answered not-found for an evicted job, another for a
\* job never submitted
C4_Witness ==
    \E c \in Callers :
        /\ waiter[c].op = "status" /\ ~waiter[c].found
        /\ waiter[c].job \in Created
        /\ \E id \in askJobs : jobs[id].state = "succeeded"

\* C5 as stated: once a terminal job's finishedAt is older than the TTL,
\* every status call for its id fails with not-found.
C5_ExpiredJobNeverFound ==
    [][\A c \in Callers :
          StatusAnswered(c) /\ waiter'[c].job \in Created
              /\ Expired(jobs[waiter'[c].job], now)
          => ~waiter'[c].found
      ]_vars

\* a step that runs cleanupAskJobs: createAskJob, or runAskJob settling
SweepStep ==
    \/ pc = "idle" /\ pc' = "created"
    \/ awaiting' # awaiting /\ awaiting' \subseteq awaiting

\* C5 as amended: after a sweep (run on submit and on every job's
\* completion) no job past the TTL is left in the table, an evicted id never
\* comes back, and status finds only ids in the table; so once a sweep has
\* run after a job's finishedAt became older than the TTL, every later
\* status call for it fails with not-found.
C5_ExpiredJobGoneAfterSweep ==
    [][/\ SweepStep => \A id \in askJobs' : ~Expired(jobs'[id], now')
       /\ \A id \in Created \ askJobs : id \notin askJobs'
       /\ \A c \in Callers :
            StatusAnswered(c) /\ waiter'[c].found => waiter'[c].job \in askJobs
      ]_vars

C5_Witness ==
    \E c \in Callers :
        /\ waiter[c].op = "status" /\ ~waiter[c].found
        /\ waiter[c].job \in Created \ askJobs
        /\ Expired(jobs[waiter[c].job], now)
        /\ Cardinality(askJobs) < ASK_ASYNC_JOB_MAX

\* caller c samples its job in waitForAskJob in this step: its sleep ends,
\* or it calls the result tool with a wait for a job in the table
WaitSample(c) ==
    /\ waiter'[c] # waiter[c]
    /\ waiter'[c].op = "result" /\ waiter'[c].found /\ waiter'[c].timeout # 0

\* C9: waitForAskJob and getAskJob change no job and not the table;
\* waitForAskJob returns as soon as it samples the job terminal, without
\* sleeping when it is terminal at the call, and returns a job that is still
\* queued or running only once timeoutMs has elapsed.
C9_WaitIsReadOnly ==
    [][\A c \in Callers :
          /\ waiter'[c] # waiter[c] => jobs' = jobs /\ askJobs' = askJobs
          /\ WaitSample(c) =>
                LET w == waiter'[c]
                    slept == IF waiter[c].pc = "sleeping" THEN waiter[c].sleeps ELSE 0
                IN /\ jobs[w.job].state \in Terminal =>
                        w.pc = "returned" /\ w.sleeps = slept
                            /\ w.state = jobs[w.job].state
                   /\ w.pc = "returned" => w.state = jobs[w.job].state
                   /\ w.pc = "returned" /\ w.state \in Live =>
                        /\ waiter[c].pc = "sleeping"
                        /\ now - waiter[c].startedAt >= waiter[c].timeout
                   /\ waiter[c].pc = "sleeping" /\ jobs[w.job].state \in Live
                        /\ now - waiter[c].startedAt >= waiter[c].timeout =>
                        w.pc = "returned"
                   /\ w.pc = "sleeping" =>
                        /\ jobs[w.job].state \in Live
                        /\ now - w.startedAt < w.timeout
                        /\ w.sleeps = slept + 1
                        /\ w.wakeAt = now + w.poll
      ]_vars

\* a wait returned a job still running, having slept until its timeout
C9_Witness ==
    \E c \in Callers :
        /\ waiter[c].op = "result" /\ waiter[c].pc = "returned"
        /\ waiter[c].state = "running" /\ waiter[c].sleeps >= 1
        /\ waiter[c].timeout # 0

(***************************************************************************)
(* Claims about chatgpt_webui_prompt.                                      *)
(***************************************************************************)
\* the literal w occurs somewhere in s
Contains(s, w) == \E i \in 0..Len(s) : OccursAt(s, w, i)

\* the request asks for research or an image, for model mode pro or
\* thinking, or for a wait of more than five minutes
LongRunFlags(input) ==
    \/ input.deep_research \/ input.deep_research_site_mode # "undefined"
    \/ input.create_image
    \/ input.model_mode \in {"pro", "thinking"}
    \/ input.wait_timeout_ms > 300000

\* promptHandler has routed a request made in mode auto
AutoRouted == request.mode = "auto" /\ promptCall.pc # "ready"

\* a background run has a job and a run id, an inline run has neither and
\* answers only when its ask has settled
RoutedAsReported ==
    /\ promptCall.mode = "background" =>
          Len(jobs) = 1 /\ promptCall.run_id = 1 /\ jobs[1].input = request.input
    /\ promptCall.mode = "wait" =>
          /\ Len(jobs) = 0 /\ askJobs = {} /\ promptCall.run_id = 0
          /\ promptCall.pc = "done" => promptCall.state \in {"succeeded", "error"}

\* C7 as stated: in mode auto a request runs in the background iff it sets
\* a research flag, create_image, model_mode pro or thinking, a model
\* matching /pro|thinking|research/, or wait_timeout_ms > 300000; otherwise
\* it runs inline and creates no job.
C7_AutoRoutesByTextualMatch ==
    AutoRouted =>
        /\ promptCall.mode = "background" <=>
              \/ LongRunFlags(request.input)
              \/ \E w \in LongRunWords : Contains(request.input.model, w)
        /\ RoutedAsReported

\* C7 as amended: the model identifier counts when, lower-cased, it has pro,
\* thinking or research as a whole word (between non-word characters or the
\* ends), which is what /\b(pro|thinking|research)\b/ on the lower-cased
\* model tests.
C7_AutoRoutesByWholeWord ==
    AutoRouted =>
        /\ promptCall.mode = "background" <=>
              \/ LongRunFlags(request.input)
              \/ \E w \in LongRunWords, i \in 0..Len(request.input.model) :
                    LET m == ToLowerCase(request.input.model)
                        wordBefore == i >= 1 /\ IsWordChar(m[i])
                        wordAfter == i + Len(w) < Len(m) /\ IsWordChar(m[i + Len(w) + 1])
                    IN OccursAt(m, w, i) /\ ~wordBefore /\ ~wordAfter
        /\ RoutedAsReported

\* an upper-case PRO model, with no other flag, went to the background while
\* a model merely containing "pro" ran inline
C7_Witness ==
    /\ AutoRouted
    /\ ~LongRunFlags(request.input)
    /\ request.input.model = Str_GPT52PRO
    /\ promptCall.mode = "background" /\ promptCall.pc = "done"
    /\ jobs[1].state \in Terminal

(***************************************************************************)
(* Claims about ask.                                                       *)
(***************************************************************************)
\* createImage together with a research flag
ImageWithResearch ==
    /\ askInput.createImage
    /\ \/ askInput.deepResearch
       \/ askInput.deepResearchSiteMode # "undefined"
       \/ askInput.model = Str_research

\* ask has thrown e with no attempt made and no request sent to a backend
ThrewUntried(e) ==
    /\ askCall.pc = "threw" /\ askCall.error = e
    /\ askCall.attempts = 0
    /\ remote.issued = {} /\ remote.undeleted = {}

\* C1 as stated: for every request with createImage and a research flag,
\* ask fails with the invalid-mode-combination error before any backend
\* call, and is never retried.
C1_ImageWithResearchIsInvalidMode ==
    ImageWithResearch /\ askCall.pc # "ready" => ThrewUntried(Err_invalid_mode)

\* C1 as amended: such a request fails before any backend call and without
\* retry, with the invalid-mode-combination error when its prompt has a
\* non-space character and with missing_prompt when it has none.
C1_ImageWithResearchFailsUntried ==
    ImageWithResearch /\ askCall.pc # "ready" =>
        IF \A i \in 1..Len(askInput.prompt) : IsSpace(askInput.prompt[i])
        THEN ThrewUntried(Err_missing_prompt)
        ELSE ThrewUntried(Err_invalid_mode)

\* ask has refused an image request with a research site mode and a prompt
C1_Witness ==
    /\ askInput.createImage /\ askInput.deepResearchSiteMode = "search_web"
    /\ askInput.prompt = Str_hi_padded
    /\ ThrewUntried(Err_invalid_mode)

\* #camofoxFetchJsonDocument is running
FetchRunning == askCall.pc \in {"fetch.createTab", "fetch.body", "fetch.finally"}
\* #askViaCamofox is running
AttemptRunning ==
    \/ askCall.pc \in {"createTab", "steps", "download", "heuristics", "finally"}
    \/ FetchRunning

\* C8: every tab created by an attempt of ask or by a round of the JSON
\* document fetch has had its delete request by the time the attempt, or
\* the fetch, is over, whether it returned or threw: a tab with no delete
\* request yet is the one a running attempt or a running fetch round holds.
C8_EveryTabDeletedBeforeReturn ==
    /\ remote.undeleted \subseteq ({askCall.tabId, askCall.fetchTab} \ {0})
    /\ ~FetchRunning => askCall.fetchTab = 0
    /\ ~AttemptRunning => remote.undeleted = {}
    /\ askCall.pc \in {"returned", "threw"} /\ "POST /tabs" \in remote.issued =>
          \/ "DELETE /tabs" \in remote.issued
          \/ remote.issued \subseteq {"POST /tabs", "POST /start"}

\* ask gave up after its last attempt timed out of polling or crashed, with
\* tabs created both by the attempts and by document fetches, none left
C8_Witness ==
    /\ askCall.pc = "threw" /\ askCall.attempts = AskMaxAttempts
    /\ {"POST /tabs", "fetchJsonDocument", "DELETE /tabs"} \subseteq remote.issued
    /\ remote.undeleted = {}

(***************************************************************************)
(* Claims about one job run to its end.                                    *)
(***************************************************************************)
\* C11: every submitted job eventually reaches succeeded or failed, whether
\* or not anyone asks for its status, when every backend request returns
\* (with a result or an error); and the poll loop starts no tick once its
\* deadline has passed: the step the poller takes then ends the call.
C11_EveryJobSettles ==
    /\ (1 \in DOMAIN jobs) ~> (1 \in DOMAIN jobs /\ jobs[1].state \in Terminal)
    /\ [][poller.pc = "polling" /\ ~BeforeDeadline(poller, now) /\ poller' # poller
            => poller'.pc \in {"returned", "threw"} /\ now' = now]_vars

\* the job failed with the poller's timeout and nobody ever asked for it
C11_Witness ==
    /\ 1 \in DOMAIN jobs
    /\ jobs[1].state = "failed" /\ jobs[1].error = Err_timeout
    /\ \A c \in Callers : waiter[c] = IdleWaiter

\* C14: against a backend that shows the generation indicator for one tick
\* and then an assistant turn with text T and a ready input, a job for a
\* plain text request (modelMode instant) eventually is succeeded with
\* result text T.
C14_StubJobSucceedsWithText ==
    (surface.script = "stub" /\ 1 \in DOMAIN jobs)
        ~> (1 \in DOMAIN jobs /\ jobs[1].state = "succeeded" /\ jobs[1].result = "T")

\* the job of the scripted page has succeeded with T, the poller having
\* taken both of the page's snapshots
C14_Witness ==
    /\ surface = [StubSurface EXCEPT !.snapshots = 1]
    /\ 1 \in DOMAIN jobs
    /\ jobs[1].state = "succeeded" /\ jobs[1].result = "T"

\* the messages the retry test of ask matches, and those the retry test of
\* #camofoxCreateTab matches
AskCrashSignals == {"Page crashed", "camofox_request_failed_500"}
TabCrashSignals == {"Page crashed"}
\* an attempt of ask has failed and its error is about to reach the catch
\* block of ask
AttemptFailed == askCall.pc = "finally" /\ askCall.pending # "return"
\* a call of #camofoxCreateTab is in its loop
CreatingTab == askCall.pc \in {"createTab", "fetch.createTab"}

\* C24: ask makes at most 3 attempts and one call of #camofoxCreateTab at
\* most 4.  After a failed attempt of ask another one follows exactly when
\* the error matches a crash signal and fewer than 3 attempts have been
\* made; then a browser restart has been requested and 1000 ms times the
\* number of attempts made has been slept; otherwise the error is rethrown
\* to the caller and no restart is requested.  A further round of tab
\* creation comes with a restart and a sleep of 1000 ms times the rounds
\* made, and tab creation throws only an error that matches no crash
\* signal or the error of its fourth round.
C24_BoundedRetriesWithBackoff ==
    [][/\ askCall'.attempts <= 3
       /\ askCall'.createAttempt + 1 <= 4
       /\ AttemptFailed =>
             IF askCall.pending \in AskCrashSignals /\ askCall.attempts < 3
             THEN /\ askCall'.pc = "enter"
                  /\ "POST /start" \in remote'.issued
                  /\ askCall'.slept = 1000 * askCall.attempts
             ELSE /\ askCall'.pc = "threw"
                  /\ askCall'.error = askCall.pending
                  /\ "POST /start" \in remote'.issued => "POST /start" \in remote.issued
       /\ askCall'.attempts # askCall.attempts =>
             /\ askCall'.attempts = askCall.attempts + 1
             /\ askCall.attempts >= 1 => askCall.slept = 1000 * askCall.attempts
       /\ CreatingTab /\ askCall'.createAttempt = askCall.createAttempt + 1 =>
             /\ "POST /start" \in remote'.issued
             /\ askCall'.slept = 1000 * askCall'.createAttempt
       /\ askCall.pc = "createTab" /\ askCall'.pc = "finally" =>
             \/ askCall'.pending \notin TabCrashSignals
             \/ askCall.createAttempt + 1 = 4]_vars

\* ask rethrew the crash error of its third attempt, whose tab creation
\* had itself failed on its fourth round
C24_Witness ==
    /\ askCall.pc = "threw" /\ askCall.error = "Page crashed"
    /\ askCall.attempts = 3 /\ askCall.createAttempt = 3
    /\ "POST /start" \in remote.issued

\* the UI-state errors of the claim, and the poll timeout
UiStateOrTimeout ==
    {"camofox_login_required", "camofox_ui_error_something_went_wrong",
     "camofox_workspace_selection_not_resolved", "camofox_deep_research_entry_not_found",
     "camofox_prompt_input_not_found", "camofox_assistant_response_timeout"}

\* C25: an attempt of ask that fails with a UI-state error or with the poll
\* timeout is the last one: ask rethrows that error to its caller without
\* another attempt and without requesting a browser restart, and nothing
\* follows; when no earlier attempt crashed, it is the only attempt.
C25_UiStateErrorsNotRetried ==
    [][/\ AttemptFailed /\ askCall.pending \in UiStateOrTimeout =>
             /\ askCall'.pc = "threw"
             /\ askCall'.error = askCall.pending
             /\ askCall'.attempts = askCall.attempts
             /\ "POST /start" \in remote'.issued => "POST /start" \in remote.issued
             /\ "POST /start" \notin remote.issued => askCall'.attempts = 1
       /\ askCall.pc = "threw" => UNCHANGED <<askCall, remote>>]_vars

\* the first attempt found the log-in page; ask threw the error after that
\* one attempt, its tab deleted and no restart requested
C25_Witness ==
    /\ askCall.pc = "threw" /\ askCall.error = "camofox_login_required"
    /\ askCall.attempts = 1
    /\ "POST /start" \notin remote.issued
    /\ "assertAuthenticated" \in remote.issued

\* the step the attempt is about to make
StepDue == Steps(askInput, askCall.model)[askCall.step]
\* the attempt goes on to its next step
GoesOn ==
    /\ askCall'.pc = "steps" /\ askCall'.step = askCall.step + 1
    /\ askCall'.pending = "none"
\* the attempt is abandoned with an error
Aborts == askCall'.pc = "finally" /\ askCall'.pending # "return"
\* the steps still to come include typing the prompt and then submitting it
TypesAndSubmitsLater ==
    LET steps == Steps(askInput, askCall.model)
    IN \E i, j \in (askCall.step + 1)..Len(steps) :
          i < j /\ steps[i] = "typeWithFallback" /\ steps[j] = "submitPrompt"

\* C26: the cookie-dialog dismissal, the model selection and the image
\* toggle never abort the attempt: when one of them fails the attempt goes
\* on to its next step with the typing and the submission of the prompt
\* still ahead, and only these three degrade.  A research-mode step or the
\* typing of the prompt either succeeds or aborts the attempt with its
\* error.
C26_BestEffortStepsNeverAbort ==
    [][askCall.pc = "steps" /\ askCall' # askCall =>
          /\ StepDue \in {"dismissCookieDialogs", "selectModel", "enableCreateImage"} =>
                /\ GoesOn
                /\ TypesAndSubmitsLater
                /\ askCall'.degraded \in {askCall.degraded, askCall.degraded \cup {StepDue}}
          /\ askCall'.degraded \notin {askCall.degraded, {}} =>
                StepDue \in {"dismissCookieDialogs", "selectModel", "enableCreateImage"}
          /\ StepDue \in {"enableDeepResearch", "typeWithFallback"} =>
                /\ GoesOn \/ Aborts
                /\ GoesOn => askCall'.degraded = askCall.degraded]_vars

\* the cookie dialog could not be dismissed and the model not selected; the
\* attempt has typed the prompt all the same and is about to submit it
C26_Witness ==
    /\ askCall.pc = "steps"
    /\ askCall.degraded = {"dismissCookieDialogs", "selectModel"}
    /\ Steps(askInput, askCall.model)[askCall.step] = "submitPrompt"
    /\ "typeWithFallback" \in remote.attempt

\* the request names a model other than auto, or a model mode other than auto
NamesSpecificModel ==
    \/ Trim(askInput.model) \notin {<<>>, <<"a", "u", "t", "o">>}
    \/ askInput.modelMode \notin {"undefined", "auto"}

\* C27: the model selector is opened only for a request that names a
\* specific model: a request with no model and no model mode, or with model
\* mode auto, causes no model selection.
C27_SelectorOnlyForSpecificModel ==
    "selectModel" \in remote.issued => NamesSpecificModel

\* the depths one click away from a depth: a click on any of its buttons
OneClickFrom(depth) ==
    {DepthAfterClick(depth, EffortButtons(depth)[i]) : i \in DOMAIN EffortButtons(depth)}
\* the least number of clicks that takes the page from one depth to another
MinClicks(from, to) ==
    IF to = from THEN 0
    ELSE IF to \in OneClickFrom(from) THEN 1
    ELSE IF \E via \in OneClickFrom(from) : to \in OneClickFrom(via) THEN 2
    ELSE 3

NamedOption(radios, workspace) ==
    LET labelled == {i \in DOMAIN radios : radios[i] # ""}
        named == {i \in labelled : Lower(radios[i]) = Lower(workspace)}
        Least(refs) == CHOOSE i \in refs : \A k \in refs : i <= k
    IN IF named # {} THEN Least(named)
       ELSE IF labelled # {} THEN Least(labelled)
       ELSE 0

\* C29: while the workspace interstitial is shown the workspace step clicks
\* the option labelled with the caller's workspace, and the first labelled
\* option when there is none; it clicks at most 3 times, returns without a
\* click as soon as the interstitial is absent, and throws one error when
\* no option can be clicked and another when the interstitial is still
\* shown after the attempts.
C29_WorkspaceInterstitialResolution ==
    [][helper.fn = "resolveWorkspace" /\ helper.pc = "running" =>
         /\ Len(helper'.clicks) <= 3
         /\ Err_workspace_ref_not_found # Err_workspace_not_resolved
         /\ IF ~chatPage.selectWorkspace
            THEN helper'.pc = "returned" /\ helper'.clicks = helper.clicks
            ELSE IF Len(helper.clicks) = 3
            THEN /\ helper'.pc = "threw"
                 /\ helper'.error = Err_workspace_not_resolved
                 /\ helper'.clicks = helper.clicks
            ELSE IF NamedOption(chatPage.radios, helper.arg) = 0
            THEN /\ helper'.pc = "threw"
                 /\ helper'.error = Err_workspace_ref_not_found
                 /\ helper'.clicks = helper.clicks
            ELSE /\ helper'.pc = "running"
                 /\ helper'.clicks =
                      Append(helper.clicks, NamedOption(chatPage.radios, helper.arg))]_vars

\* the step clicked three options, the second of them the one labelled with
\* the caller's workspace behind another option, and the interstitial is
\* still shown: it threw the error of the unresolved selection
C29_Witness ==
    /\ helper.fn = "resolveWorkspace" /\ helper.pc = "threw"
    /\ helper.arg = "PRO"
    /\ helper.error = "camofox_workspace_selection_not_resolved"
    /\ Len(helper.clicks) = 3 /\ helper.clicks[2] = 2
    /\ chatPage.selectWorkspace

\* C30: the assembly of a snapshot from chunks fetches at strictly
\* increasing offsets, fetches at most 8 chunks, and returns the chunks
\* joined in the order they were fetched.
C30_ChunksAtIncreasingOffsets ==
    helper.fn = "snapshotTextAll" =>
        /\ \A i, k \in DOMAIN helper.fetched : i < k => helper.fetched[i] < helper.fetched[k]
        /\ Len(helper.fetched) <= 8
        /\ helper.pc = "returned" => helper.text = JoinLines(helper.chunks)

\* C22: an image request whose wait for the image ran into the overall
\* deadline with no conversation id resolved fails with the timeout error:
\* its attempt never returns a result.
C22_ImageDeadlineWithoutIdFails ==
    /\ wantsImageGeneration(askInput)
    /\ askCall.settle = "deadline"
    /\ askCall.conversationId = ""
    => /\ askCall.pc # "returned"
       /\ askCall.pc = "threw" => askCall.error = Err_timeout

(***************************************************************************)
(* Claims about the completion poller.                                     *)
(***************************************************************************)
\* C12: when the poll deadline elapses, the outcome carries the partial text
\* and the conversation id captured so far: a result returned at or after
\* the deadline has both, and the timeout error, which carries neither, is
\* thrown only when neither had been captured.
C12_DeadlineOutcomeCarriesProgress ==
    /\ poller.pc = "returned" /\ ~BeforeDeadline(poller, now) =>
          /\ poller.text = poller.lastCandidate
          /\ poller.conversationId = poller.lastConversationId
    /\ poller.pc = "threw" /\ poller.error = Err_timeout =>
          /\ poller.lastCandidate = ""
          /\ poller.lastConversationId = ""

\* C12, amended: when the poll deadline elapses with a candidate captured,
\* the result carries the candidate and the conversation id resolved so
\* far; with no candidate the call fails with the timeout error, which
\* carries neither, whether or not a conversation id had been resolved.
C12_DeadlineOutcomeCarriesCandidate ==
    /\ poller.pc = "returned" /\ ~BeforeDeadline(poller, now) =>
          /\ poller.text = poller.lastCandidate /\ poller.text # ""
          /\ poller.conversationId = poller.lastConversationId
    /\ poller.pc = "threw" /\ poller.error = Err_timeout => poller.lastCandidate = ""
    /\ poller.pc = "threw" => poller.text = "" /\ poller.conversationId = ""

\* the deadline passed with a conversation id resolved and no candidate,
\* and the poller threw the timeout error
C12_Witness ==
    /\ poller.pc = "threw" /\ poller.error = Err_timeout
    /\ poller.lastConversationId = "c1"

\* C21: when the loop test finds the deadline passed, the call ends there:
\* with the last candidate as its text when there is one; otherwise, when
\* the caller accepts an empty result and a conversation id was resolved,
\* with the empty text and that id; otherwise with the timeout error.
C21_DeadlineExpiryOutcome ==
    [][poller.pc = "polling" /\ now - poller.startedAt >= poller.timeoutMs =>
          IF poller.lastCandidate # ""
          THEN poller'.pc = "returned" /\ poller'.text = poller.lastCandidate
          ELSE IF poller.allowEmptyResult /\ poller.lastConversationId # ""
          THEN /\ poller'.pc = "returned" /\ poller'.text = ""
               /\ poller'.conversationId = poller.lastConversationId
          ELSE /\ poller'.pc = "threw"
               /\ poller'.error = "camofox_assistant_response_timeout"]_vars

\* a call that accepts an empty result ran into its deadline on a page that
\* was generating or offering to continue to the last, with a conversation
\* id and no candidate, and returned the empty text with the id
C21_Witness ==
    /\ poller.pc = "returned" /\ poller.allowEmptyResult
    /\ now - poller.startedAt >= poller.timeoutMs
    /\ poller.lastCandidate = "" /\ poller.idleTicks = 0
    /\ poller.text = "" /\ poller.conversationId = "c1"

\* the error the claim names for each fatal phrase, and for a log-in page
MarkerError ==
    [p \in {Phrase_wrong, Phrase_unable, Phrase_logged_out, Phrase_expired} |->
        CASE p = Phrase_wrong -> "camofox_ui_error_something_went_wrong"
          [] p = Phrase_unable -> "camofox_ui_error_unable_to_load_conversation"
          [] p = Phrase_logged_out -> "camofox_ui_error_session_logged_out"
          [] p = Phrase_expired -> "camofox_ui_error_session_expired"]
LoginError == "camofox_login_required"

\* what the claim asks of the tick the poller makes of snapshot snap, read
\* at clock reading t: a fatal marker with no candidate yet fails the poll
\* with an error naming a kind the page shows, a log-in page with no
\* candidate and no fatal marker fails it with the log-in error, and with
\* a candidate captured the tick does not fail
MarkersDecide(snap, t) ==
    LET after == TickBody(poller, snap, t)
    IN /\ snap.phrases # {} /\ poller.lastCandidate = "" =>
             /\ after.pc = "threw"
             /\ after.error \in {MarkerError[p] : p \in snap.phrases}
       /\ snap.phrases = {} /\ snap.logIn /\ poller.lastCandidate = "" =>
             /\ after.pc = "threw"
             /\ after.error = LoginError
             /\ after.error \notin {MarkerError[p] : p \in DOMAIN MarkerError}
       /\ poller.lastCandidate # "" => after.pc # "threw"

\* the poller is about to make a tick
TickDue == poller.pc = "polling" /\ BeforeDeadline(poller, now)

\* C20: on any tick where a fatal UI error marker is present and no
\* candidate has been captured yet, the poller fails with the error that
\* names the kind; where login is required and no candidate exists it fails
\* with the distinct login-required error; once a candidate has been
\* captured neither marker fails the poll.
C20_MarkersFailPoll ==
    TickDue => \A snap \in SurfaceSnapshots(surface), d \in RequestMs :
                  MarkersDecide(snap, now + d)

\* C20, amended: the same on every tick whose snapshot shows no Continue
\* generating button; on one that shows it the poller clicks the button and
\* goes on to the next tick, whatever markers the page shows.
C20_MarkersFailPollUnlessContinue ==
    TickDue => \A snap \in SurfaceSnapshots(surface), d \in RequestMs :
                  IF snap.continueGenerating
                  THEN TickBody(poller, snap, now + d).pc = "polling"
                  ELSE MarkersDecide(snap, now + d)

\* after a tick that saw the Stop button, the poller failed on a page that
\* showed two fatal phrases and a log-in button, with the error of the
\* phrase that comes first
C20_Witness ==
    /\ poller.pc = "threw"
    /\ poller.error = MarkerError[Phrase_unable]
    /\ poller.snapshot.phrases = {Phrase_unable, Phrase_expired}
    /\ poller.snapshot.logIn
    /\ poller.seenGenerationIndicator /\ ~poller.snapshot.stop

\* C23: on a tick whose snapshot shows a Continue generating control the
\* poller clicks it, sets the idle-tick count to 0 and goes back to the loop
\* test without the sleep that ends other ticks; it looks at no error
\* marker, extracts no text or conversation id and tests no settle
\* condition, so the tick neither returns nor fails whatever else the
\* snapshot shows (the click itself, a backend request, can still fail).
C23_ContinueRestartsTick ==
    TickDue =>
        \A snap \in {sn \in SurfaceSnapshots(surface) : sn.continueGenerating},
           d \in RequestMs :
            LET after == TickBody(poller, snap, now + d)
            IN /\ after.pc = "polling"
               /\ after.idleTicks = 0
               /\ after.lastCandidate = poller.lastCandidate
               /\ after.lastCandidateAt = poller.lastCandidateAt
               /\ after.lastConversationId = poller.lastConversationId
               /\ after.text = "" /\ after.error = "none"
               /\ TickEnd(poller, snap, now + d) = now + d

\* the poller is back at its loop test sooner after the call than a tick
\* with its sleep takes: the first tick clicked Continue generating
C23_Witness ==
    /\ poller.pc = "polling"
    /\ now > poller.startedAt
    /\ now - poller.startedAt < PollSleepMs
    /\ poller.idleTicks = 0

\* the poller has seen the generation indicator or resolved a conversation id
Trusting(p) == p.seenGenerationIndicator \/ p.lastConversationId # ""

\* C18: the poller takes an extracted text for its candidate only on a tick
\* by whose end the generation indicator has been seen, on this or an
\* earlier tick, or a conversation id has been resolved; on every other
\* tick the candidate stays as it was, so the text the poller returns was
\* never captured before one of the two held.
C18_CandidateOnlyWhenTrusted ==
    [][/\ poller'.lastCandidate # poller.lastCandidate => Trusting(poller')
       /\ poller'.pc = "returned" /\ poller'.text # "" => Trusting(poller')]_vars

\* the poller returned a text it adopted with the generation indicator seen
\* and no conversation id resolved, after a tick that adopted nothing
C18_Witness ==
    /\ poller.pc = "returned" /\ poller.text = "U"
    /\ poller.seenGenerationIndicator /\ poller.lastConversationId = ""
    /\ poller.idleTicks >= 1

\* a tick that started before the deadline ends the call with a result
SettledReturn ==
    /\ poller.pc = "polling"
    /\ BeforeDeadline(poller, now)
    /\ poller'.pc = "returned"

\* C19: before the deadline the poller returns only on a tick where it has
\* a candidate, the snapshot shows no generation in progress, at least
\* 6000 ms have passed since the candidate last changed, and the snapshot
\* shows a ready input or the idle-tick count is at least 3; it returns
\* the last candidate.  The time of the last change is that of the tick
\* that changed the candidate, so no return comes sooner than 6000 ms
\* after a change.
C19_SettlesOnlyWhenStable ==
    [][/\ SettledReturn =>
            /\ poller'.lastCandidate # ""
            /\ ~snapshotIndicatesGenerationInProgress(poller'.snapshot)
            /\ now' - poller'.lastCandidateAt >= 6000
            /\ \/ snapshotIndicatesReadyForNextPrompt(poller'.snapshot)
               \/ poller'.idleTicks >= 3
            /\ poller'.text = poller'.lastCandidate
            /\ poller'.lastCandidate = poller.lastCandidate
       /\ IF poller'.lastCandidate # poller.lastCandidate
          THEN poller'.lastCandidateAt = now' - PollSleepMs
          ELSE poller'.lastCandidateAt = poller.lastCandidateAt]_vars

\* the poller returned before its deadline a candidate it had adopted on a
\* tick after the first, on a snapshot with no ready input, after three
\* idle ticks
C19_Witness ==
    /\ poller.pc = "returned"
    /\ now - poller.startedAt < poller.timeoutMs
    /\ poller.text = "U" /\ poller.lastCandidateAt > poller.startedAt + PollSleepMs
    /\ ~snapshotIndicatesReadyForNextPrompt(poller.snapshot)
    /\ poller.idleTicks >= SettleIdleTicks

(***************************************************************************)
(* Claims about jobs running at the same time.                             *)
(***************************************************************************)
\* every request of a job against a tab goes to a tab that job created, and
\* no two jobs hold the same tab at once
TabsNotShared ==
    /\ \A j \in TabJobs : clients[j].target # 0 => backend.created[clients[j].target] = j
    /\ \A j, k \in TabJobs :
          j # k /\ clients[j].pc \in HoldsTab /\ clients[k].pc \in HoldsTab =>
             clients[j].tabId # clients[k].tabId

\* every request of a job against a session context goes to a context that
\* job created, and no two jobs holding a tab use the same context
SessionsNotShared ==
    /\ \A j \in TabJobs :
          clients[j].session # "" => <<clients[j].session, j>> \in backend.contexts
    /\ \A j, k \in TabJobs :
          j # k /\ clients[j].pc \in HoldsTab /\ clients[k].pc \in HoldsTab =>
             clients[j].userId # clients[k].userId

Phase(kind) ==
    CASE kind \in {"POST /tabs", "importSessionCookie"} -> 1
      [] kind \in {"navigate", "wait"} -> 2
      [] kind \in {"resolveWorkspace", "dismissCookieDialogs"} -> 3
      [] kind = "assertAuthenticated" -> 4
      [] kind \in {"enableDeepResearch", "enableCreateImage", "selectModel",
                   "setReasoningEffort"} -> 5
      [] kind = "typeWithFallback" -> 6
      [] kind = "submitPrompt" -> 7
      [] kind \in {"pollAssistantText", "waitForImageGenerationToSettle"} -> 8
      [] OTHER -> 9

\* the requests an attempt for the request has to make: those every attempt
\* makes and the configuration the request asks for
RequiredKinds(input, model) ==
    {"POST /tabs", "importSessionCookie", "navigate", "resolveWorkspace",
     "assertAuthenticated", "typeWithFallback", "submitPrompt"}
    \cup (IF input.deepResearch \/ input.deepResearchSiteMode # "undefined"
             \/ EffectiveModelSlug(input, model) = Str_research
          THEN {"enableDeepResearch"} ELSE {})
    \cup (IF input.createImage THEN {"enableCreateImage"} ELSE {})
    \cup (IF EffectiveModelSlug(input, model) \notin {<<>>, Str_research, Str_auto}
          THEN {"selectModel"} ELSE {})
    \cup (IF input.reasoningEffort # "undefined" THEN {"setReasoningEffort"} ELSE {})
    \cup (IF input.createImage THEN {"waitForImageGenerationToSettle"}
          ELSE {"pollAssistantText"})

\* C17: within one attempt of ask the remote actions come in strict order:
\* when the attempt makes a request of a kind it has not made yet, it has
\* made no request of a later place in the order, and it has made every
\* request of an earlier place that the request calls for; so the prompt is
\* submitted only after the configuration and polled only after the submit.
C17_AttemptStepsInOrder ==
    [][\A kind \in remote'.attempt \ remote.attempt :
          /\ \A made \in remote.attempt : Phase(made) <= Phase(kind)
          /\ \A due \in RequiredKinds(askInput, askCall.model) :
                Phase(due) < Phase(kind) => due \in remote.attempt]_vars

\* an attempt with model and reasoning configuration has submitted the
\* prompt and polled
C17_Witness ==
    /\ askCall.pc = "finally"
    /\ {"selectModel", "setReasoningEffort", "submitPrompt", "pollAssistantText"}
          \subseteq remote.attempt


(***************************************************************************)
(* The use of element references.  Every function of the client that      *)
(* clicks or types by reference is written as the set of the request       *)
(* sequences its branches can make on the tab: a snapshot kept in a local, *)
(* a click or type by a reference parsed from a local, a request that      *)
(* changes the page without a reference (click or type by selector, key    *)
(* press, navigate), and a request that leaves the page alone (wait,       *)
(* links, downloads, images).                                              *)
(***************************************************************************)
SnapshotInto(local) == [op |-> "snapshot", local |-> local]
ClickRefFrom(local) == [op |-> "clickRef", local |-> local]
TypeRefFrom(local) == [op |-> "typeRef", local |-> local]
Acts == [op |-> "act", local |-> ""]
Reads == [op |-> "read", local |-> ""]

\* one of seqs followed by one of more
Then(seqs, more) == {a \o b : a \in seqs, b \in more}
\* one of seqs, or nothing
Maybe(seqs) == seqs \cup {<<>>}

\* #camofoxFindAndClick (chatgpt-webui-client.ts:1960-1969)
FindAndClickRefs ==
    Then({<<SnapshotInto("snapshotText")>>}, Maybe({<<ClickRefFrom("snapshotText")>>}))

\* #camofoxFindAndClickAnyRole with two roles
\* (chatgpt-webui-client.ts:1971-1980): it stops at the first click
FindAndClickAnyRoleRefs ==
    FindAndClickRefs \cup Then({<<SnapshotInto("snapshotText")>>}, FindAndClickRefs)

\* one round of #camofoxResolveWorkspace (chatgpt-webui-client.ts:1983-1999)
ResolveWorkspaceRound ==
    <<SnapshotInto("snapshotText"), ClickRefFrom("snapshotText"), Reads>>
\* #camofoxResolveWorkspace (chatgpt-webui-client.ts:1982-2006): up to
\* three rounds, the last snapshot of a call shows no interstitial or ends it
ResolveWorkspaceRefs ==
    Then({<<>>, ResolveWorkspaceRound, ResolveWorkspaceRound \o ResolveWorkspaceRound,
          ResolveWorkspaceRound \o ResolveWorkspaceRound \o ResolveWorkspaceRound},
         {<<SnapshotInto("snapshotText")>>})

\* #camofoxOpenModelMenu (chatgpt-webui-client.ts:2042-2056), the snapshot
\* it returns being kept by its caller
OpenModelMenuRefs(local) ==
    {<<SnapshotInto("snapshotText"), ClickRefFrom("snapshotText"), Reads,
       SnapshotInto(local)>>}

\* findAndSelectFromSnapshot (chatgpt-webui-client.ts:2062-2076), when it
\* finds the item
SelectFromSnapshotRefs(local) == {<<ClickRefFrom(local), Reads>>}

\* #camofoxSelectModel with one submenu (chatgpt-webui-client.ts:2058-2101)
SelectModelRefs ==
    Then(OpenModelMenuRefs("initialSnapshotText"),
         SelectFromSnapshotRefs("initialSnapshotText")
            \cup Then(FindAndClickAnyRoleRefs,
                      Then({<<Reads, SnapshotInto("submenuSnapshot")>>},
                           SelectFromSnapshotRefs("submenuSnapshot")
                              \cup {<<SnapshotInto("fallbackSnapshot")>>})))

\* mutant: the chip found in the first snapshot is clicked after the
\* removal of the other
SetReasoningEffortRefs_keepsFirst ==
    {<<SnapshotInto("snapshotText"), ClickRefFrom("snapshotText"), Reads,
       ClickRefFrom("snapshotText")>>}

\* #camofoxSetReasoningEffort (chatgpt-webui-client.ts:2204-2261): none,
\* standard, extended
SetReasoningEffortRefs ==
    LET first == {<<SnapshotInto("snapshotText")>>}
        remove == Maybe({<<ClickRefFrom("snapshotText"), Reads>>})
    IN Then(first, remove)
       \cup Then(first, Then(remove, Then({<<SnapshotInto("snapshotAfterRemove")>>},
                                           Maybe(Then(FindAndClickRefs, Maybe({<<Reads>>}))))))
       \cup Then(first, Then(remove, Then(FindAndClickRefs,
                                           Maybe(Then(FindAndClickAnyRoleRefs,
                                                      Maybe({<<Reads>>}))))))

\* #camofoxTypeWithFallback when no selector takes the text
\* (chatgpt-webui-client.ts:2277-2325): type and click by selector, then
\* the snapshot, the full snapshot when it has no textbox, the type by
\* reference
TypeWithFallbackRefs ==
    Then({<<Acts>>, <<Acts, Acts, Acts>>},
         {<<SnapshotInto("snapshotText")>>,
          <<SnapshotInto("snapshotText"), TypeRefFrom("snapshotText")>>,
          <<SnapshotInto("snapshotText"), SnapshotInto("allSnapshot")>>,
          <<SnapshotInto("snapshotText"), SnapshotInto("allSnapshot"),
            TypeRefFrom("allSnapshot")>>})

\* #camofoxSubmitPrompt (chatgpt-webui-client.ts:2327-2374): the Enter
\* key, the snapshot, the click on the send button by reference or by
\* selector
SubmitPromptRefs ==
    Then({<<Acts, SnapshotInto("snapshotText")>>},
         {<<>>, <<ClickRefFrom("snapshotText"), Reads>>, <<Acts>>, <<Acts, Acts>>})

\* one tick of #camofoxPollAssistantText with
\* #camofoxClickContinueGeneratingIfPresent
\* (chatgpt-webui-client.ts:2403-2414, 2376-2385)
ClickContinueGeneratingRefs ==
    Then({<<Reads, SnapshotInto("snapshotText")>>},
         Maybe({<<ClickRefFrom("snapshotText"), Reads>>}))

\* the download button of the image collection
\* (chatgpt-webui-client.ts:2654-2761): links, visited urls, the snapshot,
\* the pointer, image and download-queue requests, the click
DownloadClickRefs ==
    Then({<<Reads, Reads, SnapshotInto("postSnapshot")>>},
         Then({<<>>, <<Reads>>, <<Reads, Reads>>},
              Maybe({<<ClickRefFrom("postSnapshot"), Reads>>})))

RefSites ==
    {"findAndClick", "resolveWorkspace", "selectModel", "setReasoningEffort",
     "typeWithFallback", "submitPrompt", "pollAssistantText", "downloadClick"}
RefsOf(site) ==
    CASE site = "findAndClick" -> FindAndClickAnyRoleRefs
      [] site = "resolveWorkspace" -> ResolveWorkspaceRefs
      [] site = "selectModel" -> SelectModelRefs
      [] site = "setReasoningEffort" -> SetReasoningEffortRefs
      [] site = "typeWithFallback" -> TypeWithFallbackRefs
      [] site = "submitPrompt" -> SubmitPromptRefs
      [] site = "pollAssistantText" -> ClickContinueGeneratingRefs
      [] site = "downloadClick" -> DownloadClickRefs

\* the request the call is at
RefOp == refUse.ops[refUse.at]
RefAt(kinds) ==
    /\ refUse.pc = "running"
    /\ refUse.at <= Len(refUse.ops)
    /\ RefOp.op \in kinds
RefFrame == UNCHANGED <<schedVars, promptVars, askVars, pollVars, tabVars, chatPage, helper,
                        extraction>>

\* a function is called on the tab; its locals are empty
RefCall ==
    /\ refUse.pc = "idle"
    /\ \E site \in RefSites : \E ops \in RefsOf(site) :
          refUse' = [NoRefs EXCEPT !.pc = "running", !.site = site, !.ops = ops, !.at = 1,
                                   !.page = refUse.page]
    /\ RefFrame

\* GET /tabs/:id/snapshot: the local holds the page as it is now
RefSnapshot ==
    /\ RefAt({"snapshot"})
    /\ refUse' = [refUse EXCEPT !.at = @ + 1,
                                !.held = (RefOp.local :> refUse.page) @@ @]
    /\ RefFrame

\* a click or type by a reference parsed from a local: the request names
\* an element of the page the local holds, and changes the page
RefClickOrType ==
    /\ RefAt({"clickRef", "typeRef"})
    /\ refUse' = [refUse EXCEPT !.at = @ + 1, !.page = @ + 1,
                                !.used = Append(@, [local |-> RefOp.local,
                                                    fetched |-> refUse.held[RefOp.local],
                                                    page |-> refUse.page])]
    /\ RefFrame

\* a click or type by selector, a key press, a navigation
RefActs ==
    /\ RefAt({"act"})
    /\ refUse' = [refUse EXCEPT !.at = @ + 1, !.page = @ + 1]
    /\ RefFrame

\* a request that leaves the page as it is
RefReads ==
    /\ RefAt({"read"})
    /\ refUse' = [refUse EXCEPT !.at = @ + 1]
    /\ RefFrame

\* the function returns; the next call finds the page as this one left it
MaxPageChanges == 6
RefReturn ==
    /\ refUse.pc = "running"
    /\ refUse.at > Len(refUse.ops)
    /\ refUse' = [NoRefs EXCEPT !.page = IF refUse.page >= MaxPageChanges THEN 0
                                         ELSE refUse.page]
    /\ RefFrame

RefInit ==
    /\ SchedInit
    /\ NoPrompt
    /\ NoAsk
    /\ NoPoll
    /\ NoTabs
    /\ NoHelper

RefNext ==
    \/ RefCall
    \/ RefSnapshot
    \/ RefClickOrType
    \/ RefActs
    \/ RefReads
    \/ RefReturn

SpecRefs == RefInit /\ [][RefNext]_vars

(***************************************************************************)
(* Further claims about the job table.                                     *)
(***************************************************************************)
\* C35: every job in the table is consistent: succeeded jobs have a result
\* and no error, failed jobs an error and no result; finishedAt is set
\* exactly on terminal jobs and startedAt exactly on jobs that are not
\* queued; and createdAt <= startedAt <= finishedAt where they are set.
C35_JobsInternallyConsistent ==
    \A id \in askJobs :
        LET job == jobs[id]
        IN /\ job.state = "succeeded" => job.result # NullStr /\ job.error = NullStr
           /\ job.state = "failed" => job.error # NullStr /\ job.result = NullStr
           /\ job.finishedAt # Null <=> job.state \in Terminal
           /\ job.startedAt # Null <=> job.state # "queued"
           /\ job.startedAt # Null => job.createdAt <= job.startedAt
           /\ job.finishedAt # Null => job.startedAt <= job.finishedAt

\* the table holds a succeeded job and a failed job, both finished after
\* they were started, and a job submit has stored but not yet started
C35_Witness ==
    /\ pc = "created"
    /\ \E a, b \in askJobs :
         /\ jobs[a].state = "succeeded" /\ jobs[a].startedAt < jobs[a].finishedAt
         /\ jobs[b].state = "failed" /\ jobs[b].startedAt < jobs[b].finishedAt
    /\ jobs[nextId - 1].state = "queued" /\ nextId - 1 \in askJobs

\* C36: the worker's first step runs inside submit: whenever a handler can
\* run, no job of the table is queued; the status and result tools never
\* report a queued job; and the job submit returns is running and started.
C36_QueuedNeverObserved ==
    /\ [](pc = "idle" => \A id \in askJobs : jobs[id].state # "queued")
    /\ [](\A c \in Callers : waiter[c].state # "queued")
    /\ [][pc = "created" /\ pc' = "idle" =>
            /\ jobs'[nextId - 1].state = "running"
            /\ jobs'[nextId - 1].startedAt # Null]_vars

\* the status tool has found a job that submit had just returned, and
\* reported it running
C36_Witness ==
    /\ pc = "idle"
    /\ \E c \in Callers :
         /\ waiter[c].op = "status" /\ waiter[c].found
         /\ waiter[c].job = nextId - 1
         /\ waiter[c].state = "running"

\* the terminal jobs of a table
TerminalIn(tbl, J) == {id \in tbl : J[id].state \in Terminal}
\* what a sweep leaves: a table at or under the cap, or without terminal job
Swept(tbl, J) == Cardinality(tbl) <= ASK_ASYNC_JOB_MAX \/ TerminalIn(tbl, J) = {}

\* C37: right after every sweep the table holds at most the cap or no
\* terminal job; at any time it exceeds the cap only by jobs that are not
\* terminal, and by the one job submit inserted right after its own sweep.
C37_CapExceededOnlyByLiveJobs ==
    /\ [][/\ awaiting' # awaiting /\ awaiting' \subseteq awaiting => Swept(askJobs', jobs')
          /\ pc = "idle" /\ pc' = "created" => Swept(askJobs' \ {nextId}, jobs')]_vars
    /\ [](\/ Swept(askJobs, jobs)
          \/ /\ nextId - 1 \in askJobs
             /\ jobs[nextId - 1].state \notin Terminal
             /\ Swept(askJobs \ {nextId - 1}, jobs))

\* submit has returned a job into a table that held a full cap of terminal
\* jobs: the table is one over the cap and holds terminal jobs
C37_Witness ==
    /\ pc = "idle"
    /\ Cardinality(askJobs) = ASK_ASYNC_JOB_MAX + 1
    /\ Cardinality(TerminalIn(askJobs, jobs)) = ASK_ASYNC_JOB_MAX
    /\ jobs[nextId - 1].state = "running"

\* C38: a caller that waits on a job which a sweep takes out of the table
\* during the wait still gets the job: the job keeps its terminal state and
\* its result, and the wait returns it as found, with that state.
C38_WaitSurvivesEviction ==
    [][\A c \in Callers :
          waiter[c].pc = "sleeping" /\ waiter[c].job \notin askJobs' =>
              LET job == jobs'[waiter[c].job]
              IN /\ job.state \in Terminal
                 /\ job.state = "succeeded" => job.result # NullStr
                 /\ job.state = "failed" => job.error # NullStr
                 /\ waiter'[c].pc \in {"sleeping", "returned"}
                 /\ waiter'[c].pc = "returned" =>
                       /\ waiter'[c].found
                       /\ waiter'[c].job = waiter[c].job
                       /\ waiter'[c].state = job.state]_vars

\* the result tool has slept on a job, another job's sweep has evicted it,
\* and the tool has returned the job as succeeded
C38_Witness ==
    \E c \in Callers :
        /\ waiter[c].pc = "returned" /\ waiter[c].op = "result"
        /\ waiter[c].sleeps >= 1
        /\ waiter[c].job \in Created \ askJobs
        /\ waiter[c].found /\ waiter[c].state = "succeeded"
        /\ jobs[waiter[c].job].result # NullStr

(***************************************************************************)
(* Further claims about the ask call.                                      *)
(***************************************************************************)
\* a step of the running attempt sends the first request of the kind
Sends(kind) == kind \notin remote.attempt /\ kind \in remote'.attempt
\* an attempt of the call has submitted the prompt and gone on to wait for
\* the answer
AwaitedAnswer ==
    remote.issued \cap {"pollAssistantText", "waitForImageGenerationToSettle"} # {}

\* C39: within one ask call the prompt is typed and submitted at most once:
\* once an attempt has submitted it and waited for the answer, no step of
\* the call types or submits the prompt again, retries included.
C39_PromptSubmittedAtMostOnce ==
    [][AwaitedAnswer => ~Sends("typeWithFallback") /\ ~Sends("submitPrompt")]_vars

\* the attempt is collecting the images of an image request: the download
\* loop, its conversation-record fetch, or the link and snapshot fallbacks
CollectingImages ==
    askCall.pc \in {"download", "fetch.createTab", "fetch.body", "fetch.finally",
                    "heuristics"}

\* C34: no step of the image collection fails the run: whatever a step of
\* the fallback chain meets, the attempt leaves the collection by
\* returning, with or without images.
C34_ImageCollectionNeverFails ==
    [][CollectingImages /\ askCall'.pc = "finally" => askCall'.pending = "return"]_vars


(***************************************************************************)
(* Claims about the response extractor                                     *)
(***************************************************************************)
\* the assistant-turn markers of a snapshot
AssistantMarkers(lines) == {i \in DOMAIN lines : IsChatGptSaid(lines[i])}
LastMarker(lines) ==
    CHOOSE i \in AssistantMarkers(lines) : \A k \in AssistantMarkers(lines) : k <= i

\* C32: when the snapshot contains one or more assistant-turn markers, the
\* extractor returns the content of the last assistant turn, the blocks
\* between the last marker and the next turn boundary or terminal action
\* button, and so never the content of an earlier turn nor the echoed prompt
\* of a user turn.
C32_LastAssistantTurnReturned ==
    extraction.pc = "returned" /\ AssistantMarkers(extraction.lines) # {}
        => extraction.text = TurnText(extraction.lines, LastMarker(extraction.lines))

\* the lines of a snapshot that carry text
TextBlocks(lines) ==
    {i \in DOMAIN lines : /\ lines[i].role \in InlineRoles \cup {"paragraph"}
                          /\ Trim(lines[i].value) # <<>>}
\* every text of the snapshot equals the prompt after whitespace
\* normalization
OnlyPromptText(lines, prompt) ==
    \A i \in TextBlocks(lines) :
        collapseWhitespace(Unquote(Trim(lines[i].value))) = collapseWhitespace(prompt)
\* some assistant turn of the snapshot has content
AnswerShown(lines) == \E i \in AssistantMarkers(lines) : TurnHasBlocks(lines, i)

\* C33 as stated: for every snapshot whose only text blocks equal the prompt
\* after whitespace normalization the extractor returns the empty string.
C33_Original ==
    extraction.pc = "returned" /\ OnlyPromptText(extraction.lines, extraction.prompt)
        => extraction.text = <<>>

\* C33: for every snapshot whose only text blocks equal the prompt after
\* whitespace normalization and in which no assistant turn has content, the
\* extractor returns the empty string and not the prompt; the extractor
\* returns a text for every snapshot and prompt, it never throws.
C33_PromptOnlySnapshotYieldsEmpty ==
    /\ extraction.pc = "returned"
       /\ OnlyPromptText(extraction.lines, extraction.prompt)
       /\ ~AnswerShown(extraction.lines)
         => extraction.text = <<>>
    /\ extraction.pc = "returned" => DOMAIN extraction.text = 1..Len(extraction.text)

\* a snapshot that shows the prompt outside a user turn, spelled with other
\* white space and quoted, and nothing else, has yielded the empty string
C33_Witness ==
    /\ extraction.pc = "returned"
    /\ extraction.prompt = Str_prompt_spaced
    /\ OnlyPromptText(extraction.lines, extraction.prompt)
    /\ ~AnswerShown(extraction.lines)
    /\ \E i \in TextBlocks(extraction.lines) :
          /\ extraction.lines[i].value = Str_prompt_quoted
          /\ \A k \in 1..i : ~IsYouSaid(extraction.lines[k])
    /\ extraction.text = <<>>

(***************************************************************************)
(* Claims about the poller on a resumed conversation                       *)
(***************************************************************************)
\* C40: when a request resumes a conversation that already shows an earlier
\* assistant turn, the poller never returns that earlier turn's text as the
\* answer to the newly submitted prompt, also while the new assistant turn
\* is absent or empty.
C40_EarlierTurnNeverReturned ==
    surface.script = "resumed" /\ poller.pc = "returned"
        => poller.text # TextName(Str_old_answer)

(***************************************************************************)
(* Claims about element references                                         *)
(***************************************************************************)
\* C31: every click or type by reference uses a reference parsed from a
\* snapshot fetched after the most recent state-changing action (click,
\* type, key press, navigate) on the tab: the page has not changed between
\* the fetch of the snapshot and the request that uses its reference.
C31_ReferencesAreFresh ==
    \A k \in DOMAIN refUse.used : refUse.used[k].fetched = refUse.used[k].page

\* the download button has been clicked by a reference of the snapshot taken
\* before the pointer and image requests, on a page that earlier calls changed
C31_Witness ==
    /\ refUse.site = "downloadClick"
    /\ refUse.used # <<>>
    /\ refUse.used[1].page > 0
    /\ refUse.at > 5

====
